---------------------------- MODULE Spec2Model ----------------------------
(***************************************************************************)
(* Fire control of the ranged weapon (ARangedWeapon / ARayCastWeapon):     *)
(* the readiness flag, the burst counter and burst cooldown, the two       *)
(* one-shot timers, and the shot pipeline LaunchAttack -> Execute*Fire ->  *)
(* ExecuteWeaponFire -> ShootWeapon -> trace; the two-stage trace of the   *)
(* weapon and of UWeaponHandlingComponent; ownership and drop of           *)
(* ABaseWeapon; and the active-weapon binding of the handling component.   *)
(*                                                                         *)
(* Time is counted in ticks of the timer service.  A timer handle holds    *)
(* the ticks left until its callback runs; 0 means no timer is pending.    *)
(***************************************************************************)
EXTENDS Integers, Sequences, FiniteSets, TLC

\* ------------------------------------------------------------------ bounds
MaxBurst == 3          \* largest MaxBurstShotCount explored
MaxFireRate == 2       \* largest WeaponFireRate explored, in ticks
MaxCooldown == 3       \* largest BurstShotCooldown explored, in ticks
MaxPellets == 2        \* largest PelletsPerBullet explored by Spec
MaxShots == 7          \* the shot count saturates here
MaxElapsed == 6        \* the elapsed-time observation saturates here
MaxLine == 2           \* most actors standing along one ray
MaxIgnored == 2        \* longest ActorsToIgnore list explored
MaxSettleTimers == 2   \* most settle timers pending on one weapon

\* uint8: the width of the pellet loop counter and of the burst counter
Uint8Modulus == 256

\* ABaseWeapon::Fall: the delay of the settle timer, 8.0f seconds; where a
\* weapon is dropped a tick of the timer service is one second.
SettleDuration == 8

\* ------------------------------------------------------------- enumerations
EFM_Single == "EFM_Single"
EFM_Burst == "EFM_Burst"
EFM_Automatic == "EFM_Automatic"
EFiringMode == {EFM_Single, EFM_Burst, EFM_Automatic}

ESP_Single == "ESP_Single"
ESP_Spread == "ESP_Spread"
EShotPattern == {ESP_Single, ESP_Spread}

\* What a line trace can meet: nothing, an actor without the damage-receiving
\* interface, an actor with it.
NoActor == "NoActor"
Wall == "Wall"
Pawn == "Pawn"
Actors == {Wall, Pawn}
ImplementsDamageInterface(a) == a = Pawn

\* The character that carries weapons, and the null ACharacter pointer.
NoCharacter == "NoCharacter"
Player == "Player"

\* The weapon entities of the level: the ranged weapon whose fire control is
\* modelled, and a second weapon of the base class (its LaunchAttack is empty).
Rifle == "Rifle"
Sidearm == "Sidearm"
WeaponEntities == {Rifle, Sidearm}
NoWeapon == "NoWeapon"

Min(a, b) == IF a < b THEN a ELSE b

\* The elements of a sequence.
Range(s) == {s[i] : i \in 1..Len(s)}

\* The sequences over S of length at most n.
SeqsUpTo(S, n) == UNION {[1..k -> S] : k \in 0..n}

\* Points are named by the ray they lie on and the distance along it:
\* Point("Aim", d) is WorldLocation + WorldDirection * d.
Point(ray, d) == [along |-> ray, at |-> d]
ZeroVector == Point("Zero", 0)

\* ------------------------------------------------------------------- state
VARIABLES
    WeaponData,                 \* FWeaponData, the weapon profile
    bShouldFireWeapon,          \* global fire readiness flag
    bShouldBurstShotCooldown,   \* burst cooldown state flag
    CurrentBurstShotCount,      \* uint8 burst progress counter
    WeaponFireTimer,            \* ticks left of the rate-of-fire timer, 0 = none
    WeaponBurstCooldownTimer,   \* ticks left of the burst recovery timer, 0 = none
    hung,                       \* the game thread never returned from a handler
    out,                        \* what the last handler did (observation)
    shots,                      \* accepted attacks so far, saturating at MaxShots
    sinceShot,                  \* ticks since the last accepted attack, saturating
    BaseWeapon,                 \* the ABaseWeapon fields of each weapon entity
    Component,                  \* the fields of UWeaponHandlingComponent
    ActiveWeapon,               \* the handling component's active-weapon binding
    Level                       \* the level the game runs in: its layout,
                                \* and the scene in front of the shooter
                                \* where the layout fixes one

vars == <<WeaponData, bShouldFireWeapon, bShouldBurstShotCooldown,
          CurrentBurstShotCount, WeaponFireTimer, WeaponBurstCooldownTimer,
          hung, out, shots, sinceShot, BaseWeapon, Component, ActiveWeapon,
          Level>>

fireControl == <<bShouldFireWeapon, bShouldBurstShotCooldown,
                 CurrentBurstShotCount, WeaponFireTimer, WeaponBurstCooldownTimer>>

\* What an operation of the ranged weapon's fire control leaves alone.
surroundings == <<BaseWeapon, Component, ActiveWeapon, Level>>

\* The profile fields the fire control and the shot pipeline read.  The trace
\* test and the fire sound are off as the constructor leaves them; the range
\* covers every actor on a ray.
FWeaponData(mode, rate, burst, cooldown, pattern, pellets) ==
    [FiringMode |-> mode, WeaponFireRate |-> rate, MaxBurstShotCount |-> burst,
     BurstShotCooldown |-> cooldown, WeaponDamage |-> 10,
     ShotPattern |-> pattern, PelletsPerBullet |-> pellets,
     WeaponRange |-> MaxLine, bShouldPerformWeaponTraceTest |-> FALSE,
     MinimumSpreadRange |-> -1, MaximumSpreadRange |-> 1,
     BeamTrail |-> FALSE, WeaponFireSound |-> FALSE,
     CurrentAmmoCount |-> 500, MaxAmmoCount |-> 500,
     CurrentClipCount |-> 50, MaxClipCount |-> 50]

\* The profiles explored: every firing mode and shot pattern, a positive fire
\* interval, a burst size >= 1, a cooldown >= 0 and the given pellet counts.
Profiles(pelletCounts) ==
    {FWeaponData(m, r, b, c, p, n) :
        m \in EFiringMode, r \in 1..MaxFireRate, b \in 1..MaxBurst,
        c \in 0..MaxCooldown, p \in EShotPattern, n \in pelletCounts}

NoOutput ==
    [lastOp |-> "Construct", accepted |-> FALSE, returned |-> TRUE,
     executeCalls |-> 0, traces |-> 0, hits |-> <<>>, damage |-> <<>>,
     timersFired |-> {}, faulted |-> FALSE, world |-> <<>>,
     ignored |-> {}, target |-> NoWeapon, ground |-> FALSE, trails |-> <<>>]

\* ARangedWeapon::ARangedWeapon
Construct(profile) ==
    /\ WeaponData = profile
    /\ CurrentBurstShotCount = 0
    /\ bShouldFireWeapon = TRUE
    /\ bShouldBurstShotCooldown = FALSE
    /\ WeaponFireTimer = 0
    /\ WeaponBurstCooldownTimer = 0
    /\ hung = FALSE
    /\ out = NoOutput
    /\ shots = 0
    /\ sinceShot = 0

\* ABaseWeapon::ABaseWeapon and the member initialisers of BaseWeapon.h: no
\* owning character, an empty ignore list; usePhysics is the editor's value
\* of bShouldUsePhysicsSimulation.  The mesh is attached to nothing, simulates
\* nothing and has no settle timer; the actor stands where it was placed.
ABaseWeapon(usePhysics) ==
    [OwningCharacter |-> NoCharacter,
     ActorsToIgnore |-> <<>>,
     bShouldUsePhysicsSimulation |-> usePhysics,
     bSimulatePhysics |-> FALSE,
     bAttached |-> FALSE,
     ActorLocation |-> "Placed",
     SimulationTimers |-> <<>>]

\* UWeaponHandlingComponent::UWeaponHandlingComponent
UWeaponHandlingComponent ==
    [FiringMode |-> EFM_Single, WeaponFireRate |-> 12, MaxBurstShotCount |-> 0,
     BurstShotCooldown |-> 0, WeaponRange |-> 0, WeaponDamage |-> 0,
     bShouldPerformWeaponTraceTest |-> FALSE, ShotPattern |-> ESP_Single,
     PallatesPerBullet |-> 1,
     MinimumSpreadRange |-> 0, MaximumSpreadRange |-> 60,
     BeamTrail |-> FALSE, CurrentBurstShotCount |-> 0,
     bShouldFireWeapon |-> TRUE, bShouldBurstShotCooldown |-> FALSE,
     WeaponFireTimer |-> 0, WeaponBurstCooldownTImer |-> 0]

\* A weapon in the hand of the player: constructed, then given its owning
\* character and attached to the carrier.
InHand(usePhysics) ==
    [ABaseWeapon(usePhysics) EXCEPT !.OwningCharacter = Player,
                                    !.bAttached = TRUE,
                                    !.ActorLocation = "Carried"]

\* The ranged weapon in the hand of the player in an open level; the second
\* weapon lies where it was placed and the component has fired nothing.
Equipped ==
    /\ BaseWeapon = [w \in WeaponEntities |->
                        IF w = Rifle THEN InHand(TRUE) ELSE ABaseWeapon(TRUE)]
    /\ Component = UWeaponHandlingComponent
    /\ ActiveWeapon = Rifle
    /\ Level = [layout |-> "Open", scene |-> <<>>]

Init == \E profile \in Profiles(1..MaxPellets) : Construct(profile) /\ Equipped

\* ------------------------------------------------------------ timer service
\* FTimerManager::SetTimer on a handle replaces the handle's timer; a rate
\* <= 0 clears it and schedules nothing.
SetTimer(rate) == IF rate > 0 THEN rate ELSE 0

\* ---------------------------------------------------------------- the level
\* What the world answers to the queries of one shot.  aim lists the actors
\* blocking the Visibility channel along the aim ray, nearest first, the i-th
\* at distance i; obstacles lists those between the barrel and the point the
\* aim ray hits (where it hits nothing, the point at which it ends), nearest
\* to the barrel first; vehicle lists the actors
\* blocking the Vehicle channel along the ray the component casts from the
\* barrel.  The flags tell which references exist: the game viewport, the
\* player controller of the owning character, the barrel socket of the mesh
\* and the actor owner (AActor::GetOwner).  nullDeref is what a call through
\* a null pointer does in this build: it faults, or it reads garbage and
\* the handler continues.  rand is what the random number generator holds
\* for the shot: the draws the next three calls of FMath::RandRange are
\* computed from (none of them away from the lower end, unless the level
\* says otherwise).
Scene(aim, obstacles, vehicle, viewport, controller, socket, owner, deref) ==
    [aim |-> aim, obstacles |-> obstacles, vehicle |-> vehicle,
     bGameViewport |-> viewport, bPlayerController |-> controller,
     bBarrelSocket |-> socket, bActorOwner |-> owner, nullDeref |-> deref,
     rand |-> <<0, 0, 0>>]

\* An open level: every reference exists, nothing stands between the barrel
\* and the target, and there is ground everywhere.
OpenScenes ==
    {Scene(aim, <<>>, <<>>, TRUE, TRUE, TRUE, TRUE, "Fault") :
        aim \in SeqsUpTo(Actors, 1)}

\* A level with cover: actors stand along the rays, in any order, and the
\* mesh may lack the barrel socket (nullDeref matters only then).
ObstructedScenes ==
    {Scene(aim, obstacles, vehicle, TRUE, TRUE, socket, TRUE, deref) :
        aim \in SeqsUpTo(Actors, MaxLine),
        obstacles \in SeqsUpTo(Actors, MaxLine),
        vehicle \in SeqsUpTo(Actors, 1),
        socket \in BOOLEAN, deref \in {"Fault", "Continues"}}
    \ {Scene(aim, obstacles, vehicle, TRUE, TRUE, TRUE, TRUE, "Continues") :
          aim \in SeqsUpTo(Actors, MaxLine),
          obstacles \in SeqsUpTo(Actors, MaxLine),
          vehicle \in SeqsUpTo(Actors, 1)}

\* A level in which references can be missing.
UnboundScenes ==
    {Scene(aim, <<>>, <<>>, viewport, controller, TRUE, owner, deref) :
        aim \in SeqsUpTo(Actors, 1),
        viewport \in BOOLEAN, controller \in BOOLEAN, owner \in BOOLEAN,
        deref \in {"Fault", "Continues"}}

\* A level whose ground has holes: every reference of a held weapon exists,
\* and a call through a null pointer may fault or go on.
FieldScenes ==
    {Scene(aim, <<>>, <<>>, TRUE, TRUE, TRUE, TRUE, deref) :
        aim \in SeqsUpTo({Pawn}, 1), deref \in {"Fault", "Continues"}}

\* A shooting range: an open level with a wall behind the targets, in which
\* the random number generator can hold any draws.
RangeScenes ==
    {[Scene(<<Wall>>, <<>>, <<>>, TRUE, TRUE, TRUE, TRUE, "Fault")
         EXCEPT !.rand = rand] : rand \in [1..3 -> 0..2]}

\* The scenes a shot can meet.  In a level with cover nobody moves: the
\* scene in front of the shooter is the level's.
Scenes ==
    CASE Level.layout = "Open" -> OpenScenes
      [] Level.layout = "Obstructed" -> {Level.scene}
      [] Level.layout = "Unbound" -> UnboundScenes
      [] Level.layout = "Field" -> FieldScenes
      [] Level.layout = "Range" -> RangeScenes

\* Whether the downward probe of a drop can miss the ground in this level.
GroundProbes == IF Level.layout = "Field" THEN BOOLEAN ELSE {TRUE}

\* UWorld::LineTraceSingleByChannel from start to end: line lists the actors
\* blocking the channel along the ray, reach is how many of them lie before
\* end, points[i] is where the ray meets the i-th.  The first one that is
\* not ignored is the blocking hit; without one the result is reset and only
\* carries the ends of the trace.
LineTraceSingleByChannel(line, reach, ignored, start, end, points) ==
    LET blocking == {i \in 1..Min(reach, Len(line)) : line[i] \notin ignored}
    IN  IF blocking = {}
        THEN [bBlockingHit |-> FALSE, Actor |-> NoActor,
              ImpactPoint |-> ZeroVector, TraceStart |-> start, TraceEnd |-> end]
        ELSE LET i == CHOOSE i \in blocking : \A j \in blocking : i <= j
             IN  [bBlockingHit |-> TRUE, Actor |-> line[i],
                  ImpactPoint |-> points[i], TraceStart |-> start,
                  TraceEnd |-> end]

\* ------------------------------------------------------------ shot pipeline
\* Mutant of ScreenTrace: the collision parameters are left empty, so the
\* aim ray stops at actors of the ignore list.
ScreenTraceIgnoresNothing(scene) ==
    LET nullCall == ~scene.bGameViewport
                    \/ BaseWeapon[Rifle].OwningCharacter = NoCharacter
        controller == scene.bPlayerController
                      /\ BaseWeapon[Rifle].OwningCharacter # NoCharacter
        AimPoints == [i \in 1..Len(scene.aim) |-> Point("Aim", i)]
    IN  IF nullCall /\ scene.nullDeref = "Fault"
        THEN [faulted |-> TRUE, hit |-> <<>>]
        ELSE [faulted |-> FALSE,
              hit |-> IF controller
                      THEN LineTraceSingleByChannel(
                               scene.aim, WeaponData.WeaponRange, {},
                               Point("Aim", 0),
                               Point("Aim", WeaponData.WeaponRange), AimPoints)
                      ELSE LineTraceSingleByChannel(
                               <<>>, 0, {}, ZeroVector, ZeroVector, <<>>)]

\* ARayCastWeapon::ScreenTrace.  GEngine->GameViewport and GetOwningCharacter()
\* are dereferenced unchecked.  Without a player controller the deprojection
\* fails and zeroes the ray, which is then traced from the origin to the
\* origin and meets nothing.
ScreenTrace(scene) ==
    LET nullCall == ~scene.bGameViewport
                    \/ BaseWeapon[Rifle].OwningCharacter = NoCharacter
        controller == scene.bPlayerController
                      /\ BaseWeapon[Rifle].OwningCharacter # NoCharacter
        ignored == Range(BaseWeapon[Rifle].ActorsToIgnore)
        AimPoints == [i \in 1..Len(scene.aim) |-> Point("Aim", i)]
    IN  IF nullCall /\ scene.nullDeref = "Fault"
        THEN [faulted |-> TRUE, hit |-> <<>>]
        ELSE [faulted |-> FALSE,
              hit |-> IF controller
                      THEN LineTraceSingleByChannel(
                               scene.aim, WeaponData.WeaponRange, ignored,
                               Point("Aim", 0),
                               Point("Aim", WeaponData.WeaponRange), AimPoints)
                      ELSE LineTraceSingleByChannel(
                               <<>>, 0, ignored, ZeroVector, ZeroVector,
                               <<>>)]

\* The barrel stage of ARayCastWeapon::WeaponTrace, entered with the result
\* of the screen trace: if that hit and the mesh has the barrel socket, a
\* trace from the barrel through the impact point and WeaponRange beyond it,
\* with the same ignored actors.  On that ray stand the obstacles and then,
\* at the impact point, the actor the aim ray hit.
BarrelTrace(screen, scene) ==
    LET ignored == Range(BaseWeapon[Rifle].ActorsToIgnore)
        line == Append(scene.obstacles, screen.hit.Actor)
        BarrelPoints == [i \in 1..Len(line) |->
                            IF i = Len(line) THEN screen.hit.ImpactPoint
                            ELSE Point("Barrel", i)]
    IN  IF screen.faulted THEN screen
        ELSE IF ~screen.hit.bBlockingHit THEN screen
        ELSE IF ~scene.bBarrelSocket THEN screen
        ELSE [faulted |-> FALSE,
              hit |-> LineTraceSingleByChannel(
                          line, Len(line), ignored, Point("Barrel", 0),
                          Point("Barrel", Len(line) + WeaponData.WeaponRange),
                          BarrelPoints)]

\* ARayCastWeapon::WeaponTrace
WeaponTrace(scene) == BarrelTrace(ScreenTrace(scene), scene)

\* FHitResult(): the value of a hit result nothing was written to.
FHitResult ==
    [bBlockingHit |-> FALSE, Actor |-> NoActor, ImpactPoint |-> ZeroVector,
     TraceStart |-> ZeroVector, TraceEnd |-> ZeroVector]

\* ARangedWeapon::SpawnBulletTrail with the weapon's mesh: with a beam
\* trail configured, one beam from the muzzle whose target is the impact
\* point of the hit result handed in, or its trace end if that is no hit.
SpawnBulletTrail(TraceHitResult) ==
    IF WeaponData.BeamTrail
    THEN <<IF TraceHitResult.bBlockingHit THEN TraceHitResult.ImpactPoint
           ELSE TraceHitResult.TraceEnd>>
    ELSE <<>>

\* ARangedWeapon::ShootWeapon, which ARayCastWeapon::ShootWeapon calls
\* before it traces: the muzzle flash and the bullet trail of the hit result
\* as it is handed in.  LaunchAttack hands on the result of its caller, here
\* a fresh one; each pellet after the first finds in it what the pellet
\* before left there.
RangedShootWeapon(WeaponFireHitResult) == SpawnBulletTrail(WeaponFireHitResult)

\* What one resolved trace leaves behind: no damage is applied anywhere on
\* the weapon's path.
Resolved(trace) ==
    [hit |-> trace.hit, damage |-> <<>>, faulted |-> trace.faulted]

\* ARayCastWeapon::ShootWeapon: the cosmetics of the base class
\* (RangedShootWeapon, accounted for by the callers below), then one trace
\* resolution.
ShootWeapon(scene) ==
    Resolved(IF WeaponData.bShouldPerformWeaponTraceTest
             THEN WeaponTrace(scene) ELSE ScreenTrace(scene))

\* The concatenation of seqs[lo], ..., seqs[hi - 1].
RECURSIVE Concat(_, _, _)
Concat(seqs, lo, hi) ==
    IF hi <= lo THEN <<>>
    ELSE IF hi = lo + 1 THEN seqs[lo]
    ELSE LET mid == (lo + hi) \div 2
         IN  Concat(seqs, lo, mid) \o Concat(seqs, mid, hi)

\* The pellet loop of ExecuteWeaponFire: for (uint8 Pellet = 1;
\* Pellet <= PelletsPerBullet; Pellet++).  PelletAt(k) is the counter at the
\* head of iteration k (the first being 0): the increment wraps at the
\* counter's width.  The loop leaves at the first head whose test fails; the
\* counter's values repeat after Uint8Modulus iterations, so a test that
\* fails at none of them never fails.  A shot that faults ends the loop and
\* the handler with it.
PelletAt(k) == (1 + k) % Uint8Modulus

\* What the loop did, given the shot of each of its iterations.
PelletResults(shot, left) ==
    LET heads == Len(shot)
        faulted == \E k \in 1..heads : shot[k].faulted
        iterations ==
            IF faulted
            THEN (CHOOSE k \in 1..heads :
                     shot[k].faulted /\ \A j \in 1..(k - 1) : ~shot[j].faulted) - 1
            ELSE heads
        calls == IF faulted THEN iterations + 1 ELSE iterations
    IN  [returned |-> left /\ ~faulted,
         faulted |-> faulted,
         hits |-> [k \in 1..iterations |-> shot[k].hit],
         damage |-> Concat([k \in 1..iterations |-> shot[k].damage],
                           1, iterations + 1),
         trails |-> Concat([k \in 1..calls |->
                               RangedShootWeapon(IF k = 1 THEN FHitResult
                                                 ELSE shot[k - 1].hit)],
                           1, calls + 1)]

PelletLoop(world) ==
    LET leaves(k) == ~(PelletAt(k) <= WeaponData.PelletsPerBullet)
        left == \E k \in 0..(Uint8Modulus - 1) : leaves(k)
        heads ==
            IF left
            THEN CHOOSE k \in 0..(Uint8Modulus - 1) :
                     leaves(k) /\ \A j \in 0..(k - 1) : ~leaves(j)
            ELSE Uint8Modulus
    IN  PelletResults(
            [k \in 1..heads |->
                ShootWeapon(world[((PelletAt(k - 1) - 1) % Len(world)) + 1])],
            left)

\* The Single branch of ExecuteWeaponFire: one shot.
SingleShot(s) ==
    [returned |-> ~s.faulted, faulted |-> s.faulted,
     hits |-> IF s.faulted THEN <<>> ELSE <<s.hit>>, damage |-> s.damage,
     trails |-> RangedShootWeapon(FHitResult)]

\* The end of ARangedWeapon::ExecuteWeaponFire: with a fire sound configured,
\* the sound is played at GetOwner()->GetActorLocation(), unchecked.
PlayWeaponFireSound(r, scene) ==
    IF r.returned /\ WeaponData.WeaponFireSound /\ ~scene.bActorOwner
       /\ scene.nullDeref = "Fault"
    THEN [r EXCEPT !.returned = FALSE, !.faulted = TRUE]
    ELSE r

\* What ExecuteWeaponFire reports: what it did, the world it met and the
\* actors it ignored.
Fired(r, world) ==
    [returned |-> r.returned, faulted |-> r.faulted, hits |-> r.hits,
     damage |-> r.damage, world |-> world,
     ignored |-> Range(BaseWeapon[Rifle].ActorsToIgnore),
     trails |-> r.trails]

\* ARangedWeapon::ExecuteWeaponFire
ExecuteWeaponFire(world) ==
    Fired(PlayWeaponFireSound(
              IF WeaponData.ShotPattern = ESP_Single
              THEN SingleShot(ShootWeapon(world[1]))
              ELSE PelletLoop(world),
              world[1]),
          world)

\* What the world answers to each pellet of one attack: one scene under the
\* Single pattern, one per pellet under Spread (repeated in turn when the
\* loop runs longer than MaxPellets).
Worlds ==
    [1..(IF WeaponData.ShotPattern = ESP_Single THEN 1
         ELSE Min(WeaponData.PelletsPerBullet, MaxPellets)) -> Scenes]

\* ---------------------------------------------------------- observations
\* Mutant of Accepted: a fire event takes a round out of the clip.
AcceptedSpendsRound(r) ==
    /\ out' = [lastOp |-> "LaunchAttack", accepted |-> TRUE, returned |-> TRUE,
               executeCalls |-> 1, traces |-> Len(r.hits), hits |-> r.hits,
               damage |-> r.damage, timersFired |-> {}, faulted |-> FALSE,
               world |-> r.world, ignored |-> r.ignored, target |-> Rifle,
               ground |-> FALSE, trails |-> r.trails]
    /\ shots' = Min(shots + 1, MaxShots)
    /\ sinceShot' = 0
    /\ WeaponData' = [WeaponData EXCEPT !.CurrentClipCount = @ - 1]
    /\ UNCHANGED <<hung, surroundings>>

\* The gate let the attack through and ExecuteWeaponFire returned r.
Accepted(r) ==
    /\ out' = [lastOp |-> "LaunchAttack", accepted |-> TRUE, returned |-> TRUE,
               executeCalls |-> 1, traces |-> Len(r.hits), hits |-> r.hits,
               damage |-> r.damage, timersFired |-> {}, faulted |-> FALSE,
               world |-> r.world, ignored |-> r.ignored, target |-> Rifle,
               ground |-> FALSE, trails |-> r.trails]
    /\ shots' = Min(shots + 1, MaxShots)
    /\ sinceShot' = 0
    /\ UNCHANGED <<WeaponData, hung, surroundings>>

\* The gate let the attack through and ExecuteWeaponFire never returns (its
\* loop has no exit, or a call through a null pointer faulted): the statements
\* after the call are never reached.
NeverReturns(r) ==
    /\ out' = [lastOp |-> "LaunchAttack", accepted |-> TRUE, returned |-> FALSE,
               executeCalls |-> 1, traces |-> Len(r.hits), hits |-> r.hits,
               damage |-> r.damage, timersFired |-> {}, faulted |-> r.faulted,
               world |-> r.world, ignored |-> r.ignored, target |-> Rifle,
               ground |-> FALSE, trails |-> r.trails]
    /\ hung' = TRUE
    /\ shots' = Min(shots + 1, MaxShots)
    /\ sinceShot' = 0
    /\ UNCHANGED <<WeaponData, fireControl, surroundings>>

\* Mutant of Rejected: the fire-rate timer is restarted outside the if-body,
\* so a dropped request postpones the next shot.
RejectedRestartsFireTimer ==
    /\ out' = [NoOutput EXCEPT !.lastOp = "LaunchAttack"]
    /\ WeaponFireTimer' = SetTimer(WeaponData.WeaponFireRate)
    /\ UNCHANGED <<WeaponData, bShouldFireWeapon, bShouldBurstShotCooldown,
                   CurrentBurstShotCount, WeaponBurstCooldownTimer, hung, shots,
                   sinceShot, surroundings>>

\* The gate dropped the request: the handler's if-body is skipped.
Rejected ==
    /\ out' = [NoOutput EXCEPT !.lastOp = "LaunchAttack"]
    /\ UNCHANGED <<WeaponData, fireControl, hung, shots, sinceShot,
                   surroundings>>

\* ------------------------------------------------------------ mode handlers
\* ARangedWeapon::ExecuteSingleFire
ExecuteSingleFire(world) ==
    IF bShouldFireWeapon
    THEN LET r == ExecuteWeaponFire(world)
         IN  IF r.returned
             THEN /\ bShouldFireWeapon' = FALSE
                  /\ UNCHANGED <<bShouldBurstShotCooldown, CurrentBurstShotCount,
                                 WeaponFireTimer, WeaponBurstCooldownTimer>>
                  /\ Accepted(r)
             ELSE NeverReturns(r)
    ELSE Rejected

\* Mutant of ExecuteBurstFire: every shot is taken for the last of its burst
\* and starts the cooldown.
ExecuteBurstFireCoolsEveryShot(world) ==
    IF bShouldFireWeapon /\ ~bShouldBurstShotCooldown
    THEN LET r == ExecuteWeaponFire(world)
         IN  IF r.returned
             THEN /\ bShouldFireWeapon' = FALSE
                  /\ CurrentBurstShotCount' = 0
                  /\ bShouldBurstShotCooldown' = TRUE
                  /\ WeaponBurstCooldownTimer' =
                         SetTimer(WeaponData.BurstShotCooldown)
                  /\ WeaponFireTimer' = SetTimer(WeaponData.WeaponFireRate)
                  /\ Accepted(r)
             ELSE NeverReturns(r)
    ELSE Rejected

\* Mutant of ExecuteBurstFire: the gate tests the cooldown flag alone.
ExecuteBurstFireIgnoresReady(world) ==
    IF ~bShouldBurstShotCooldown
    THEN LET r == ExecuteWeaponFire(world)
             count == (CurrentBurstShotCount + 1) % Uint8Modulus
         IN  IF r.returned
             THEN /\ bShouldFireWeapon' = FALSE
                  /\ IF count >= WeaponData.MaxBurstShotCount
                     THEN /\ CurrentBurstShotCount' = 0
                          /\ bShouldBurstShotCooldown' = TRUE
                          /\ WeaponBurstCooldownTimer' =
                                 SetTimer(WeaponData.BurstShotCooldown)
                     ELSE /\ CurrentBurstShotCount' = count
                          /\ UNCHANGED <<bShouldBurstShotCooldown,
                                         WeaponBurstCooldownTimer>>
                  /\ WeaponFireTimer' = SetTimer(WeaponData.WeaponFireRate)
                  /\ Accepted(r)
             ELSE NeverReturns(r)
    ELSE Rejected

\* Mutant of ExecuteBurstFire: the gate tests the ready flag alone.
ExecuteBurstFireIgnoresCooldown(world) ==
    IF bShouldFireWeapon
    THEN LET r == ExecuteWeaponFire(world)
             count == (CurrentBurstShotCount + 1) % Uint8Modulus
         IN  IF r.returned
             THEN /\ bShouldFireWeapon' = FALSE
                  /\ IF count >= WeaponData.MaxBurstShotCount
                     THEN /\ CurrentBurstShotCount' = 0
                          /\ bShouldBurstShotCooldown' = TRUE
                          /\ WeaponBurstCooldownTimer' =
                                 SetTimer(WeaponData.BurstShotCooldown)
                     ELSE /\ CurrentBurstShotCount' = count
                          /\ UNCHANGED <<bShouldBurstShotCooldown,
                                         WeaponBurstCooldownTimer>>
                  /\ WeaponFireTimer' = SetTimer(WeaponData.WeaponFireRate)
                  /\ Accepted(r)
             ELSE NeverReturns(r)
    ELSE Rejected

\* Mutant of ExecuteBurstFire: the burst is complete only once the counter
\* exceeds the burst size (> for >=).
ExecuteBurstFireOffByOne(world) ==
    IF bShouldFireWeapon /\ ~bShouldBurstShotCooldown
    THEN LET r == ExecuteWeaponFire(world)
             count == (CurrentBurstShotCount + 1) % Uint8Modulus
         IN  IF r.returned
             THEN /\ bShouldFireWeapon' = FALSE
                  /\ IF count > WeaponData.MaxBurstShotCount
                     THEN /\ CurrentBurstShotCount' = 0
                          /\ bShouldBurstShotCooldown' = TRUE
                          /\ WeaponBurstCooldownTimer' =
                                 SetTimer(WeaponData.BurstShotCooldown)
                     ELSE /\ CurrentBurstShotCount' = count
                          /\ UNCHANGED <<bShouldBurstShotCooldown,
                                         WeaponBurstCooldownTimer>>
                  /\ WeaponFireTimer' = SetTimer(WeaponData.WeaponFireRate)
                  /\ Accepted(r)
             ELSE NeverReturns(r)
    ELSE Rejected

\* ARangedWeapon::ExecuteBurstFire
ExecuteBurstFire(world) ==
    IF bShouldFireWeapon /\ ~bShouldBurstShotCooldown
    THEN LET r == ExecuteWeaponFire(world)
             count == (CurrentBurstShotCount + 1) % Uint8Modulus
         IN  IF r.returned
             THEN /\ bShouldFireWeapon' = FALSE
                  /\ IF count >= WeaponData.MaxBurstShotCount
                     THEN /\ CurrentBurstShotCount' = 0
                          /\ bShouldBurstShotCooldown' = TRUE
                          /\ WeaponBurstCooldownTimer' =
                                 SetTimer(WeaponData.BurstShotCooldown)
                     ELSE /\ CurrentBurstShotCount' = count
                          /\ UNCHANGED <<bShouldBurstShotCooldown,
                                         WeaponBurstCooldownTimer>>
                  /\ WeaponFireTimer' = SetTimer(WeaponData.WeaponFireRate)
                  /\ Accepted(r)
             ELSE NeverReturns(r)
    ELSE Rejected

\* ARangedWeapon::ExecuteAutomaticFire
ExecuteAutomaticFire(world) ==
    IF bShouldFireWeapon
    THEN LET r == ExecuteWeaponFire(world)
         IN  IF r.returned
             THEN /\ bShouldFireWeapon' = FALSE
                  /\ WeaponFireTimer' = SetTimer(WeaponData.WeaponFireRate)
                  /\ UNCHANGED <<bShouldBurstShotCooldown, CurrentBurstShotCount,
                                 WeaponBurstCooldownTimer>>
                  /\ Accepted(r)
             ELSE NeverReturns(r)
    ELSE Rejected

\* Mutant of LaunchAttack: the ranged weapon does not override the virtual
\* handler, so the request ends in the empty ABaseWeapon::LaunchAttack.
LaunchAttackNotOverridden ==
    /\ ~hung
    /\ out' = [NoOutput EXCEPT !.lastOp = "LaunchAttack"]
    /\ UNCHANGED <<WeaponData, fireControl, hung, shots, sinceShot,
                   surroundings>>

\* ARangedWeapon::LaunchAttack: one attack request.
LaunchAttack ==
    /\ ~hung
    /\ \E world \in Worlds :
          CASE WeaponData.FiringMode = EFM_Single -> ExecuteSingleFire(world)
            [] WeaponData.FiringMode = EFM_Burst -> ExecuteBurstFire(world)
            [] WeaponData.FiringMode = EFM_Automatic -> ExecuteAutomaticFire(world)

\* ---------------------------------------------------------- timer callbacks
\* Mutant of SettleTick: the callback of the settle timer does nothing.
SettleTickKeepsSimulating(b) ==
    LET pending == SelectSeq(b.SimulationTimers, LAMBDA t : t > 1)
    IN  [b EXCEPT
           !.SimulationTimers = [i \in 1..Len(pending) |-> pending[i] - 1]]

\* The settle timer of ABaseWeapon::Fall: its callback switches the physics
\* simulation of the mesh off.  One tick on the settle timers of a weapon.
SettleTick(b) ==
    LET pending == SelectSeq(b.SimulationTimers, LAMBDA t : t > 1)
    IN  [b EXCEPT
           !.SimulationTimers = [i \in 1..Len(pending) |-> pending[i] - 1],
           !.bSimulatePhysics =
               IF \E i \in 1..Len(b.SimulationTimers) : b.SimulationTimers[i] = 1
               THEN FALSE ELSE @]

\* UWeaponHandlingComponent::ResetShouldFireWeapon and ResetBurstShotCooldown,
\* run by the component's two timers.  One tick on those timers.
ComponentTick(c) ==
    [c EXCEPT
       !.WeaponFireTimer = IF @ > 0 THEN @ - 1 ELSE 0,
       !.WeaponBurstCooldownTImer = IF @ > 0 THEN @ - 1 ELSE 0,
       !.bShouldFireWeapon =
           IF c.WeaponFireTimer = 1 THEN (IF ~@ THEN TRUE ELSE @) ELSE @,
       !.bShouldBurstShotCooldown =
           IF c.WeaponBurstCooldownTImer = 1 THEN (IF @ THEN FALSE ELSE @) ELSE @]

\* The timers outside the ranged weapon's fire control, in one tick.
TickOthers ==
    /\ BaseWeapon' = [w \in WeaponEntities |-> SettleTick(BaseWeapon[w])]
    /\ Component' = ComponentTick(Component)
    /\ UNCHANGED <<ActiveWeapon, Level>>

OtherTimersFired ==
    (IF \E w \in WeaponEntities : \E i \in 1..Len(BaseWeapon[w].SimulationTimers) :
            BaseWeapon[w].SimulationTimers[i] = 1
     THEN {"SimulationTimer"} ELSE {})
    \cup (IF Component.WeaponFireTimer = 1
          THEN {"UWeaponHandlingComponent::ResetShouldFireWeapon"} ELSE {})
    \cup (IF Component.WeaponBurstCooldownTImer = 1
          THEN {"UWeaponHandlingComponent::ResetBurstShotCooldown"} ELSE {})

\* ARangedWeapon::ResetShouldFireWeapon: the flag's value after the call.
ResetShouldFireWeapon ==
    IF ~bShouldFireWeapon THEN TRUE ELSE bShouldFireWeapon

\* Mutant of ResetBurstShotCooldown: the test is negated, as it is in
\* ResetShouldFireWeapon, so a weapon in cooldown stays in cooldown.
ResetBurstShotCooldownNegatedTest ==
    IF ~bShouldBurstShotCooldown THEN FALSE ELSE bShouldBurstShotCooldown

\* ARangedWeapon::ResetBurstShotCooldown: the flag's value after the call.
ResetBurstShotCooldown ==
    IF bShouldBurstShotCooldown THEN FALSE ELSE bShouldBurstShotCooldown

\* Mutant of Tick: the callback of the fire-rate timer clears the cooldown
\* flag as well.
TickFireTimerClearsCooldown ==
    /\ ~hung
    /\ WeaponFireTimer' = IF WeaponFireTimer > 0 THEN WeaponFireTimer - 1 ELSE 0
    /\ WeaponBurstCooldownTimer' =
          IF WeaponBurstCooldownTimer > 0 THEN WeaponBurstCooldownTimer - 1 ELSE 0
    /\ bShouldFireWeapon' =
          IF WeaponFireTimer = 1 THEN ResetShouldFireWeapon ELSE bShouldFireWeapon
    /\ bShouldBurstShotCooldown' =
          IF WeaponBurstCooldownTimer = 1 \/ WeaponFireTimer = 1
          THEN ResetBurstShotCooldown
          ELSE bShouldBurstShotCooldown
    /\ out' = [NoOutput EXCEPT
                 !.lastOp = "Tick",
                 !.timersFired =
                     (IF WeaponFireTimer = 1 THEN {"ResetShouldFireWeapon"} ELSE {})
                     \cup (IF WeaponBurstCooldownTimer = 1
                           THEN {"ResetBurstShotCooldown"} ELSE {})
                     \cup OtherTimersFired]
    /\ sinceShot' = Min(sinceShot + 1, MaxElapsed)
    /\ TickOthers
    /\ UNCHANGED <<WeaponData, CurrentBurstShotCount, hung, shots>>

\* Mutant of Tick: in Automatic mode the expiry of the fire-rate timer fires
\* the next shot by itself.
TickRepeatsAutomaticFire ==
    /\ ~hung
    /\ WeaponFireTimer' = IF WeaponFireTimer > 0 THEN WeaponFireTimer - 1 ELSE 0
    /\ WeaponBurstCooldownTimer' =
          IF WeaponBurstCooldownTimer > 0 THEN WeaponBurstCooldownTimer - 1 ELSE 0
    /\ bShouldFireWeapon' =
          IF WeaponFireTimer = 1 THEN ResetShouldFireWeapon ELSE bShouldFireWeapon
    /\ bShouldBurstShotCooldown' =
          IF WeaponBurstCooldownTimer = 1
          THEN (IF bShouldBurstShotCooldown THEN FALSE ELSE bShouldBurstShotCooldown)
          ELSE bShouldBurstShotCooldown
    /\ out' = [NoOutput EXCEPT
                 !.lastOp = "Tick",
                 !.executeCalls =
                     IF WeaponFireTimer = 1
                        /\ WeaponData.FiringMode = EFM_Automatic THEN 1 ELSE 0,
                 !.timersFired =
                     (IF WeaponFireTimer = 1 THEN {"ResetShouldFireWeapon"} ELSE {})
                     \cup (IF WeaponBurstCooldownTimer = 1
                           THEN {"ResetBurstShotCooldown"} ELSE {})
                     \cup OtherTimersFired]
    /\ sinceShot' = Min(sinceShot + 1, MaxElapsed)
    /\ TickOthers
    /\ UNCHANGED <<WeaponData, CurrentBurstShotCount, hung, shots>>

\* One tick of the timer service: every pending timer comes one tick closer,
\* and a timer whose delay has elapsed runs its callback and is gone.
Tick ==
    /\ ~hung
    /\ WeaponFireTimer' = IF WeaponFireTimer > 0 THEN WeaponFireTimer - 1 ELSE 0
    /\ WeaponBurstCooldownTimer' =
          IF WeaponBurstCooldownTimer > 0 THEN WeaponBurstCooldownTimer - 1 ELSE 0
    /\ bShouldFireWeapon' =
          IF WeaponFireTimer = 1 THEN ResetShouldFireWeapon ELSE bShouldFireWeapon
    /\ bShouldBurstShotCooldown' =
          IF WeaponBurstCooldownTimer = 1 THEN ResetBurstShotCooldown
          ELSE bShouldBurstShotCooldown
    /\ out' = [NoOutput EXCEPT
                 !.lastOp = "Tick",
                 !.timersFired =
                     (IF WeaponFireTimer = 1 THEN {"ResetShouldFireWeapon"} ELSE {})
                     \cup (IF WeaponBurstCooldownTimer = 1
                           THEN {"ResetBurstShotCooldown"} ELSE {})
                     \cup OtherTimersFired]
    /\ sinceShot' = Min(sinceShot + 1, MaxElapsed)
    /\ TickOthers
    /\ UNCHANGED <<WeaponData, CurrentBurstShotCount, hung, shots>>

\* Mutant of ResetShouldFireSingleShot: the firing mode is not tested, so the
\* call re-arms a weapon in any mode.
ResetShouldFireSingleShotAnyMode ==
    /\ ~hung
    /\ bShouldFireWeapon' = IF ~bShouldFireWeapon THEN TRUE ELSE bShouldFireWeapon
    /\ out' = [NoOutput EXCEPT !.lastOp = "ResetShouldFireSingleShot"]
    /\ UNCHANGED <<WeaponData, bShouldBurstShotCooldown, CurrentBurstShotCount,
                   WeaponFireTimer, WeaponBurstCooldownTimer, hung, shots,
                   sinceShot, surroundings>>

\* ARangedWeapon::ResetShouldFireSingleShot: a public method; nothing in the
\* weapon schedules it, a caller may invoke it at any time.
ResetShouldFireSingleShot ==
    /\ ~hung
    /\ bShouldFireWeapon' =
          IF ~bShouldFireWeapon /\ WeaponData.FiringMode = EFM_Single
          THEN TRUE ELSE bShouldFireWeapon
    /\ out' = [NoOutput EXCEPT !.lastOp = "ResetShouldFireSingleShot"]
    /\ UNCHANGED <<WeaponData, bShouldBurstShotCooldown, CurrentBurstShotCount,
                   WeaponFireTimer, WeaponBurstCooldownTimer, hung, shots,
                   sinceShot, surroundings>>

Next ==
    \/ LaunchAttack
    \/ Tick
    \/ ResetShouldFireSingleShot

Spec == Init /\ [][Next]_vars

\* Pellet counts around the width of the loop counter, one profile per firing
\* mode and shot pattern.
InitPellets ==
    \E m \in EFiringMode, p \in EShotPattern,
       n \in {1, Uint8Modulus - 2, Uint8Modulus - 1, Uint8Modulus} :
        Construct(FWeaponData(m, 1, 2, 1, p, n)) /\ Equipped

SpecPellets == InitPellets /\ [][Next]_vars

\* The burst scenario of the specification, one tick being 0.1 s:
\* mode = Burst, burstSize = 3, fireInterval = 0.1 s, cooldown = 0.5 s.
InitScenario ==
    \E p \in EShotPattern, n \in 1..MaxPellets :
        Construct(FWeaponData(EFM_Burst, 1, 3, 5, p, n)) /\ Equipped

SpecScenario == InitScenario /\ [][Next]_vars

\* ---------------------------------------------------- the handling component
\* FMath::RandRange(lo, hi): the draw taken into the range lo .. hi.
RandRange(lo, hi, draw) == lo + (draw % (hi - lo + 1))

\* The point p displaced by the vector v.
Displaced(p, v) == [along |-> p.along, at |-> p.at, by |-> v]

\* The end of the aim ray of UWeaponHandlingComponent::ScreenTrace: under
\* the Single pattern the point WeaponRange along the aim direction; under
\* Spread that point displaced by BulletSpread, whose three components are
\* three calls of RandRange(MinimumSpreadRange, MaximumSpreadRange); under
\* the patterns reserved for later the out-parameter as it came in.
ComponentTraceEnd(c, scene) ==
    CASE c.ShotPattern = ESP_Single -> Point("Aim", c.WeaponRange)
      [] c.ShotPattern = ESP_Spread ->
           Displaced(Point("Aim", c.WeaponRange),
                     [axis \in 1..3 |->
                         RandRange(c.MinimumSpreadRange, c.MaximumSpreadRange,
                                   scene.rand[axis])])
      [] OTHER -> ZeroVector

\* UWeaponHandlingComponent::ScreenTrace of component c.  The viewport is
\* dereferenced unchecked; the trace runs only when the deprojection
\* succeeds, otherwise both out-parameters are left as they came in.
ComponentScreenTrace(c, scene, ActorsToIgnore) ==
    LET AimPoints == [i \in 1..Len(scene.aim) |-> Point("Aim", i)]
        TraceHitResult ==
            LineTraceSingleByChannel(scene.aim, c.WeaponRange, ActorsToIgnore,
                                     Point("Aim", 0),
                                     ComponentTraceEnd(c, scene), AimPoints)
    IN  IF ~scene.bGameViewport /\ scene.nullDeref = "Fault"
        THEN [faulted |-> TRUE, returned |-> FALSE, hit |-> FHitResult,
              TraceEndLocation |-> ZeroVector]
        ELSE IF scene.bGameViewport /\ scene.bPlayerController
        THEN [faulted |-> FALSE, returned |-> TraceHitResult.bBlockingHit,
              hit |-> TraceHitResult,
              TraceEndLocation |->
                  IF TraceHitResult.bBlockingHit
                  THEN TraceHitResult.ImpactPoint
                  ELSE ComponentTraceEnd(c, scene)]
        ELSE [faulted |-> FALSE, returned |-> FALSE, hit |-> FHitResult,
              TraceEndLocation |-> ZeroVector]

\* The barrel stage of UWeaponHandlingComponent::WeaponTrace, entered with
\* the result of the screen trace.  Whatever that found, the barrel socket is
\* dereferenced unchecked and a ray is cast from the barrel along the
\* barrel's own position vector (TraceStartLocation.GetSafeNormal()),
\* WeaponRange long, on the Vehicle channel and with no collision parameters:
\* nothing is ignored, and the ray is not directed at what the screen trace
\* found.
ComponentBarrelTrace(c, screen, hit, scene) ==
    IF screen.faulted THEN screen
    ELSE IF ~scene.bBarrelSocket /\ scene.nullDeref = "Fault"
    THEN [screen EXCEPT !.faulted = TRUE, !.returned = FALSE]
    ELSE [faulted |-> FALSE, returned |-> hit.bBlockingHit, hit |-> hit,
          TraceEndLocation |->
              IF hit.bBlockingHit THEN hit.ImpactPoint
              ELSE Point("BarrelOutward", c.WeaponRange)]

\* UWeaponHandlingComponent::WeaponTrace of component c
ComponentWeaponTrace(c, scene, ActorsToIgnore) ==
    LET OutwardPoints ==
            [i \in 1..Len(scene.vehicle) |-> Point("BarrelOutward", i)]
    IN  ComponentBarrelTrace(
            c, ComponentScreenTrace(c, scene, ActorsToIgnore),
            LineTraceSingleByChannel(scene.vehicle, c.WeaponRange, {},
                                     Point("BarrelOutward", 0),
                                     Point("BarrelOutward", c.WeaponRange),
                                     OutwardPoints),
            scene)

\* UWeaponHandlingComponent::DamageActor: when the hit actor implements the
\* damage interface, ApplyDamage is executed on the world object.
DamageActor(c, hit) ==
    IF ImplementsDamageInterface(hit.Actor)
    THEN <<[target |-> "UWorld", amount |-> c.WeaponDamage]>>
    ELSE <<>>

\* UWeaponHandlingComponent::SpawnBulletTrail: with a beam trail configured,
\* one beam whose target is the impact point of the hit result.
ComponentSpawnBulletTrail(c, TraceHitResult) ==
    IF c.BeamTrail THEN <<TraceHitResult.ImpactPoint>> ELSE <<>>

\* What UWeaponHandlingComponent::ExecuteWeaponFire did, given the trace of
\* each pallate: each trace is followed by DamageActor, and a trace that
\* faults ends the handler.  The bullet trail is spawned after the trace,
\* except under the Single pattern without the barrel trace test, where no
\* trail is spawned.
ComponentFired(c, shot, world, ActorsToIgnore) ==
    LET pallates == Len(shot)
        faulted == \E k \in 1..pallates : shot[k].faulted
        done == IF faulted
                THEN (CHOOSE k \in 1..pallates :
                         shot[k].faulted /\ \A j \in 1..(k - 1) : ~shot[j].faulted) - 1
                ELSE pallates
    IN  [returned |-> ~faulted, faulted |-> faulted,
         hits |-> [k \in 1..done |-> shot[k].hit],
         damage |-> Concat([k \in 1..done |-> DamageActor(c, shot[k].hit)],
                           1, done + 1),
         trails |-> IF c.ShotPattern = ESP_Spread
                       \/ c.bShouldPerformWeaponTraceTest
                    THEN Concat([k \in 1..done |->
                                    ComponentSpawnBulletTrail(c, shot[k].hit)],
                                1, done + 1)
                    ELSE <<>>,
         world |-> world, ignored |-> ActorsToIgnore]

\* UWeaponHandlingComponent::ExecuteWeaponFire of component c: one trace under
\* the Single pattern, PallatesPerBullet of them under Spread.
ComponentExecuteWeaponFire(c, world, ActorsToIgnore) ==
    LET pallates == IF c.ShotPattern = ESP_Single THEN 1
                    ELSE IF c.PallatesPerBullet > 0 THEN c.PallatesPerBullet
                    ELSE 0
    IN  ComponentFired(
            c,
            [k \in 1..pallates |->
                IF c.bShouldPerformWeaponTraceTest
                THEN ComponentWeaponTrace(c, world[((k - 1) % Len(world)) + 1],
                                          ActorsToIgnore)
                ELSE ComponentScreenTrace(c, world[((k - 1) % Len(world)) + 1],
                                          ActorsToIgnore)],
            world, ActorsToIgnore)

\* What the world answers to each pellet of one FireWeapon call.
ComponentWorlds ==
    [1..(IF Component.ShotPattern = ESP_Single THEN 1
         ELSE Min(Component.PallatesPerBullet, MaxPellets)) -> Scenes]

\* The observation of one FireWeapon call.
ComponentOutput(accepted, r) ==
    [lastOp |-> "FireWeapon", accepted |-> accepted, returned |-> r.returned,
     executeCalls |-> IF accepted THEN 1 ELSE 0, traces |-> Len(r.hits),
     hits |-> r.hits, damage |-> r.damage, timersFired |-> {},
     faulted |-> r.faulted, world |-> r.world, ignored |-> r.ignored,
     target |-> NoWeapon, ground |-> FALSE, trails |-> r.trails]

ComponentIdle ==
    [returned |-> TRUE, faulted |-> FALSE, hits |-> <<>>, damage |-> <<>>,
     world |-> <<>>, ignored |-> {}, trails |-> <<>>]

\* The gate of UWeaponHandlingComponent::FireWeapon: Single mode fires
\* nothing.
ComponentGateOpen(c) ==
    CASE c.FiringMode = EFM_Single -> FALSE
      [] c.FiringMode = EFM_Burst ->
           c.bShouldFireWeapon /\ ~c.bShouldBurstShotCooldown
      [] c.FiringMode = EFM_Automatic -> c.bShouldFireWeapon

\* The statements of FireWeapon after ExecuteWeaponFire returned: the flags,
\* the burst counter (a uint32 that is reset as soon as it reaches
\* MaxBurstShotCount, far below its width for the burst sizes explored) and
\* the component's timers.
ComponentAfterFire(c) ==
    IF c.FiringMode = EFM_Burst
       /\ c.CurrentBurstShotCount + 1 >= c.MaxBurstShotCount
    THEN [c EXCEPT !.bShouldFireWeapon = FALSE,
                   !.CurrentBurstShotCount = 0,
                   !.bShouldBurstShotCooldown = TRUE,
                   !.WeaponBurstCooldownTImer = SetTimer(c.BurstShotCooldown),
                   !.WeaponFireTimer = SetTimer(c.WeaponFireRate)]
    ELSE [c EXCEPT !.bShouldFireWeapon = FALSE,
                   !.CurrentBurstShotCount =
                       IF c.FiringMode = EFM_Burst THEN @ + 1 ELSE @,
                   !.WeaponFireTimer = SetTimer(c.WeaponFireRate)]

\* FireWeapon with the gate open and ExecuteWeaponFire having done r.
ComponentAccepted(r) ==
    /\ out' = ComponentOutput(TRUE, r)
    /\ IF r.returned
       THEN Component' = ComponentAfterFire(Component) /\ UNCHANGED hung
       ELSE hung' = TRUE /\ UNCHANGED Component

\* UWeaponHandlingComponent::FireWeapon, called with the ignore list of the
\* rifle.
FireWeapon ==
    /\ ~hung
    /\ IF ComponentGateOpen(Component)
       THEN \E world \in ComponentWorlds :
               ComponentAccepted(
                   ComponentExecuteWeaponFire(
                       Component, world, Range(BaseWeapon[Rifle].ActorsToIgnore)))
       ELSE /\ out' = ComponentOutput(FALSE, ComponentIdle)
            /\ UNCHANGED <<Component, hung>>
    /\ UNCHANGED <<WeaponData, fireControl, shots, sinceShot, BaseWeapon,
                   ActiveWeapon, Level>>

\* ------------------------------------------------------------- ignore list
\* ABaseWeapon::AddActorToIgnore(AActor*) on the rifle: a null actor is
\* skipped, any other is appended.
AddActorToIgnore ==
    /\ ~hung
    /\ Len(BaseWeapon[Rifle].ActorsToIgnore) < MaxIgnored
    /\ \E Actor \in Actors \cup {NoActor} :
         BaseWeapon' =
             [BaseWeapon EXCEPT ![Rifle].ActorsToIgnore =
                 IF Actor # NoActor THEN Append(@, Actor) ELSE @]
    /\ out' = [NoOutput EXCEPT !.lastOp = "AddActorToIgnore"]
    /\ UNCHANGED <<WeaponData, fireControl, hung, shots, sinceShot, Component,
                   ActiveWeapon, Level>>

\* ABaseWeapon::AddActorToIgnore(TArray<AActor*>) on the rifle: every element
\* of a non-empty array is appended, a null element like any other.
AddActorToIgnoreArray ==
    /\ ~hung
    /\ \E IgnoredActors \in SeqsUpTo(Actors \cup {NoActor}, MaxIgnored) :
         /\ Len(BaseWeapon[Rifle].ActorsToIgnore) + Len(IgnoredActors)
                <= MaxIgnored
         /\ BaseWeapon' =
                [BaseWeapon EXCEPT ![Rifle].ActorsToIgnore =
                    IF Len(IgnoredActors) > 0 THEN @ \o IgnoredActors ELSE @]
    /\ out' = [NoOutput EXCEPT !.lastOp = "AddActorToIgnoreArray"]
    /\ UNCHANGED <<WeaponData, fireControl, hung, shots, sinceShot, Component,
                   ActiveWeapon, Level>>

\* -------------------------------------------------------- owning and dropping
\* ABaseWeapon::SetOwningCharacter on the rifle: the owner is assigned,
\* nothing else.
SetOwningCharacter ==
    /\ ~hung
    /\ \E NewOwner \in {NoCharacter, Player} :
         /\ BaseWeapon' = [BaseWeapon EXCEPT ![Rifle].OwningCharacter = NewOwner]
         /\ out' = [NoOutput EXCEPT !.lastOp = "SetOwningCharacter",
                                    !.target = Rifle]
    /\ UNCHANGED <<WeaponData, fireControl, hung, shots, sinceShot, Component,
                   ActiveWeapon, Level>>

\* Mutant of FallOf: the test of bShouldUsePhysicsSimulation is dropped, so
\* every drop simulates physics.
RECURSIVE FallOfAlwaysSimulates(_, _)
FallOfAlwaysSimulates(b, ground) ==
    LET dropped == [b EXCEPT !.OwningCharacter = NoCharacter,
                             !.bAttached = FALSE]
    IN  [dropped EXCEPT !.bSimulatePhysics = TRUE,
                        !.SimulationTimers = Append(@, SetTimer(SettleDuration))]

\* Mutant of FallOf: the drop leaves the owning character in place.
RECURSIVE FallOfKeepsOwner(_, _)
FallOfKeepsOwner(b, ground) ==
    LET dropped == [b EXCEPT !.bAttached = FALSE]
    IN  IF dropped.bShouldUsePhysicsSimulation
        THEN [dropped EXCEPT
                !.bSimulatePhysics = TRUE,
                !.SimulationTimers = Append(@, SetTimer(SettleDuration))]
        ELSE IF ground
        THEN [dropped EXCEPT !.ActorLocation = "GroundImpactPoint"]
        ELSE FallOfKeepsOwner(
                 [dropped EXCEPT !.bShouldUsePhysicsSimulation = TRUE], ground)

\* Mutant of FallOf: the drop clears the owner and leaves the mesh attached
\* to the character.
RECURSIVE FallOfStaysAttached(_, _)
FallOfStaysAttached(b, ground) ==
    LET dropped == [b EXCEPT !.OwningCharacter = NoCharacter]
    IN  IF dropped.bShouldUsePhysicsSimulation
        THEN [dropped EXCEPT
                !.bSimulatePhysics = TRUE,
                !.SimulationTimers = Append(@, SetTimer(SettleDuration))]
        ELSE IF ground
        THEN [dropped EXCEPT !.ActorLocation = "GroundImpactPoint"]
        ELSE FallOfStaysAttached(
                 [dropped EXCEPT !.bShouldUsePhysicsSimulation = TRUE], ground)

\* Mutant of FallOf: the fallback to physics is taken for this drop only,
\* and the configured flag is put back afterwards.
RECURSIVE FallOfRestoresFlag(_, _)
FallOfRestoresFlag(b, ground) ==
    LET dropped == [b EXCEPT !.OwningCharacter = NoCharacter,
                             !.bAttached = FALSE]
    IN  IF dropped.bShouldUsePhysicsSimulation
        THEN [dropped EXCEPT
                !.bSimulatePhysics = TRUE,
                !.SimulationTimers = Append(@, SetTimer(SettleDuration))]
        ELSE IF ground
        THEN [dropped EXCEPT !.ActorLocation = "GroundImpactPoint"]
        ELSE [FallOfRestoresFlag(
                  [dropped EXCEPT !.bShouldUsePhysicsSimulation = TRUE], ground)
                 EXCEPT !.bShouldUsePhysicsSimulation = FALSE]

\* The body of ABaseWeapon::Fall on a weapon with fields b; ground tells
\* whether the downward probe finds ground.  The owner is cleared and the
\* mesh detached; with physics simulation configured, the simulation is
\* switched on and a new one-shot timer of SettleDuration is set on a local
\* handle (no earlier timer is replaced); otherwise the weapon is moved to
\* the ground, or, without ground, the flag is set and Fall calls itself.
RECURSIVE FallOf(_, _)
FallOf(b, ground) ==
    LET dropped == [b EXCEPT !.OwningCharacter = NoCharacter,
                             !.bAttached = FALSE]
    IN  IF dropped.bShouldUsePhysicsSimulation
        THEN [dropped EXCEPT
                !.bSimulatePhysics = TRUE,
                !.SimulationTimers = Append(@, SetTimer(SettleDuration))]
        ELSE IF ground
        THEN [dropped EXCEPT !.ActorLocation = "GroundImpactPoint"]
        ELSE FallOf([dropped EXCEPT !.bShouldUsePhysicsSimulation = TRUE],
                    ground)

\* How often ABaseWeapon::Fall calls itself within one call on a weapon with
\* fields b: once from the branch that found no ground, after setting the
\* flag that keeps the inner call out of that branch; otherwise not at all.
RECURSIVE FallReentries(_, _)
FallReentries(b, ground) ==
    IF b.bShouldUsePhysicsSimulation THEN 0
    ELSE IF ground THEN 0
    ELSE 1 + FallReentries([b EXCEPT !.bShouldUsePhysicsSimulation = TRUE],
                           ground)

\* Mutant of Fall: the drop also clears the two fire-control timers of the
\* rifle.
FallClearsFireTimers ==
    /\ ~hung
    /\ Len(BaseWeapon[Rifle].SimulationTimers) < MaxSettleTimers
    /\ \E ground \in GroundProbes :
         /\ BaseWeapon' = [BaseWeapon EXCEPT ![Rifle] = FallOf(@, ground)]
         /\ out' = [NoOutput EXCEPT !.lastOp = "Fall", !.target = Rifle,
                                    !.ground = ground]
    /\ WeaponFireTimer' = 0
    /\ WeaponBurstCooldownTimer' = 0
    /\ UNCHANGED <<WeaponData, bShouldFireWeapon, bShouldBurstShotCooldown,
                   CurrentBurstShotCount, hung, shots, sinceShot, Component,
                   ActiveWeapon, Level>>

\* Mutant of Fall: a dropped rifle forgets the burst it was in.
FallResetsBurstCount ==
    /\ ~hung
    /\ Len(BaseWeapon[Rifle].SimulationTimers) < MaxSettleTimers
    /\ \E ground \in GroundProbes :
         /\ BaseWeapon' = [BaseWeapon EXCEPT ![Rifle] = FallOf(@, ground)]
         /\ out' = [NoOutput EXCEPT !.lastOp = "Fall", !.target = Rifle,
                                    !.ground = ground]
    /\ CurrentBurstShotCount' = 0
    /\ UNCHANGED <<WeaponData, bShouldFireWeapon, bShouldBurstShotCooldown,
                   WeaponFireTimer, WeaponBurstCooldownTimer, hung, shots,
                   sinceShot, Component, ActiveWeapon, Level>>

\* ABaseWeapon::Fall on the rifle.
Fall ==
    /\ ~hung
    /\ Len(BaseWeapon[Rifle].SimulationTimers) < MaxSettleTimers
    /\ \E ground \in GroundProbes :
         /\ BaseWeapon' = [BaseWeapon EXCEPT ![Rifle] = FallOf(@, ground)]
         /\ out' = [NoOutput EXCEPT !.lastOp = "Fall", !.target = Rifle,
                                    !.ground = ground]
    /\ UNCHANGED <<WeaponData, fireControl, hung, shots, sinceShot, Component,
                   ActiveWeapon, Level>>

\* ------------------------------------------------------- dropping the rifle
\* A level whose ground has holes.  The rifle is held, in Single or Burst
\* mode, configured with or without physics simulation; the sidearm lies
\* where it was placed.
InitDrop ==
    \E mode \in {EFM_Single, EFM_Burst}, usePhysics \in BOOLEAN :
        /\ Construct(FWeaponData(mode, 1, 2, 2, ESP_Single, 1))
        /\ BaseWeapon = [w \in WeaponEntities |->
                            IF w = Rifle THEN InHand(usePhysics)
                            ELSE ABaseWeapon(TRUE)]
        /\ Component = UWeaponHandlingComponent
        /\ ActiveWeapon = Rifle
        /\ Level = [layout |-> "Field", scene |-> <<>>]

NextDrop ==
    \/ LaunchAttack
    \/ Tick
    \/ ResetShouldFireSingleShot
    \/ SetOwningCharacter
    \/ Fall

SpecDrop == InitDrop /\ [][NextDrop]_vars

\* ------------------------------------------ equipping through a component
\* The handling component's equip, unequip and attack operations are not
\* part of the sources; they follow the specification's section 4.4.  The
\* component holds one binding, ActiveWeapon.

\* The weapons after binding weapon w: the player owns it and its mesh is
\* attached to the player.
Bound(weapons, w) ==
    [weapons EXCEPT ![w].OwningCharacter = Player, ![w].bAttached = TRUE,
                    ![w].ActorLocation = "Carried"]

\* The weapons after dropping weapon w with ABaseWeapon::Fall.
Dropped(weapons, w, ground) ==
    [weapons EXCEPT ![w] = FallOf(@, ground)]

\* equip(): found is what the radius query returns, a weapon other than the
\* bound one or none.  None bound and one found: bind it.  One bound and
\* another found: drop the bound one, then bind the new one.  One bound and
\* none found: drop it.
EquipWeapon ==
    /\ ~hung
    /\ \E found \in (WeaponEntities \ {ActiveWeapon}) \cup {NoWeapon},
          ground \in GroundProbes :
         /\ BaseWeapon' =
                CASE ActiveWeapon = NoWeapon /\ found = NoWeapon -> BaseWeapon
                  [] ActiveWeapon = NoWeapon /\ found # NoWeapon ->
                       Bound(BaseWeapon, found)
                  [] ActiveWeapon # NoWeapon /\ found = NoWeapon ->
                       Dropped(BaseWeapon, ActiveWeapon, ground)
                  [] ActiveWeapon # NoWeapon /\ found # NoWeapon ->
                       Bound(Dropped(BaseWeapon, ActiveWeapon, ground), found)
         /\ ActiveWeapon' = found
         /\ out' = [NoOutput EXCEPT !.lastOp = "EquipWeapon", !.target = found,
                                    !.ground = ground]
    /\ UNCHANGED <<WeaponData, fireControl, hung, shots, sinceShot, Component,
                   Level>>

\* unequip(): the bound weapon, if any, is dropped and the binding cleared.
UnequipWeapon ==
    /\ ~hung
    /\ \E ground \in GroundProbes :
         /\ BaseWeapon' =
                IF ActiveWeapon = NoWeapon THEN BaseWeapon
                ELSE Dropped(BaseWeapon, ActiveWeapon, ground)
         /\ out' = [NoOutput EXCEPT !.lastOp = "UnequipWeapon",
                                    !.target = ActiveWeapon, !.ground = ground]
    /\ ActiveWeapon' = NoWeapon
    /\ UNCHANGED <<WeaponData, fireControl, hung, shots, sinceShot, Component,
                   Level>>

\* attack(): forwarded to LaunchAttack of the bound weapon.  The rifle is the
\* ranged weapon; the sidearm is a plain ABaseWeapon, whose LaunchAttack is
\* empty.  With nothing bound the call does nothing.
WeaponAttack ==
    IF ActiveWeapon = Rifle
    THEN LaunchAttack
    ELSE /\ ~hung
         /\ out' = [NoOutput EXCEPT !.lastOp = "WeaponAttack",
                                    !.target = ActiveWeapon]
         /\ UNCHANGED <<WeaponData, fireControl, hung, shots, sinceShot,
                        surroundings>>

\* An open level with the two weapons lying in it, neither configured for
\* physics simulation, and nothing bound.  The rifle fires automatically.
InitHandling ==
    /\ Construct(FWeaponData(EFM_Automatic, 1, 1, 0, ESP_Single, 1))
    /\ BaseWeapon = [w \in WeaponEntities |-> ABaseWeapon(FALSE)]
    /\ Component = UWeaponHandlingComponent
    /\ ActiveWeapon = NoWeapon
    /\ Level = [layout |-> "Open", scene |-> <<>>]

NextHandling ==
    \/ EquipWeapon
    \/ UnequipWeapon
    \/ WeaponAttack
    \/ Tick

SpecHandling == InitHandling /\ [][NextHandling]_vars

\* -------------------------------------------------- missing references
\* A level in which the viewport, the player controller or the actor owner
\* may be missing when the rifle fires, and the rifle may have been dropped.
\* The rifle fires automatically, with or without a fire sound, and snaps to
\* the ground when dropped.
InitUnbound ==
    \E sound \in BOOLEAN :
        /\ Construct([FWeaponData(EFM_Automatic, 1, 1, 0, ESP_Single, 1) EXCEPT
                         !.WeaponFireSound = sound])
        /\ BaseWeapon = [w \in WeaponEntities |->
                            IF w = Rifle THEN InHand(FALSE) ELSE ABaseWeapon(TRUE)]
        /\ Component = UWeaponHandlingComponent
        /\ ActiveWeapon = Rifle
        /\ Level = [layout |-> "Unbound", scene |-> <<>>]

NextUnbound ==
    \/ LaunchAttack
    \/ Tick
    \/ Fall

SpecUnbound == InitUnbound /\ [][NextUnbound]_vars

\* -------------------------------------------------- trace resolution, alone
\* A level with cover, within one tick: the rifle and the component each fire
\* with every range up to MaxLine, with and without the barrel trace test,
\* and with every ignore list up to MaxIgnored.
InitTrace ==
    \E range \in 1..MaxLine, test \in BOOLEAN, scene \in ObstructedScenes :
        /\ Construct([FWeaponData(EFM_Automatic, 1, 1, 0, ESP_Single, 1) EXCEPT
                         !.WeaponRange = range,
                         !.bShouldPerformWeaponTraceTest = test])
        /\ BaseWeapon = [w \in WeaponEntities |->
                            IF w = Rifle THEN InHand(TRUE) ELSE ABaseWeapon(TRUE)]
        /\ Component = [UWeaponHandlingComponent EXCEPT
                           !.FiringMode = EFM_Automatic, !.WeaponFireRate = 1,
                           !.MaxBurstShotCount = 2, !.BurstShotCooldown = 1,
                           !.WeaponRange = range, !.WeaponDamage = 1,
                           !.bShouldPerformWeaponTraceTest = test]
        /\ ActiveWeapon = Rifle
        /\ Level = [layout |-> "Obstructed", scene |-> scene]

NextTrace ==
    \/ LaunchAttack
    \/ FireWeapon
    \/ AddActorToIgnore

SpecTrace == InitTrace /\ [][NextTrace]_vars


\* ------------------------------------------------------- the shooting range
\* The rifle and the component configured alike on a shooting range: the
\* Spread pattern with two pellets, a spread between -1 and 1 on each axis,
\* automatic fire.
InitSpread ==
    /\ Construct(FWeaponData(EFM_Automatic, 1, 1, 0, ESP_Spread, 2))
    /\ BaseWeapon = [w \in WeaponEntities |->
                        IF w = Rifle THEN InHand(TRUE) ELSE ABaseWeapon(TRUE)]
    /\ Component = [UWeaponHandlingComponent EXCEPT
                       !.FiringMode = EFM_Automatic, !.WeaponFireRate = 1,
                       !.WeaponRange = MaxLine, !.WeaponDamage = 1,
                       !.ShotPattern = ESP_Spread, !.PallatesPerBullet = 2,
                       !.MinimumSpreadRange = -1, !.MaximumSpreadRange = 1]
    /\ ActiveWeapon = Rifle
    /\ Level = [layout |-> "Range", scene |-> <<>>]

NextSpread ==
    \/ LaunchAttack
    \/ FireWeapon

SpecSpread == InitSpread /\ [][NextSpread]_vars

\* ------------------------------------------------------------ player input
\* The input actions of ACharacterController: the three its OnPossess names
\* and FireWeaponAction, which the class declares as well.
InputActions == {"MoveAction", "LookAction", "JumpAction", "FireWeaponAction"}

\* ACharacterController::OnPossess: the handlers it binds, by action.  No
\* handler is bound to FireWeaponAction; HandleWeaponFire is declared and
\* nowhere defined.
OnPossess ==
    [action \in {"MoveAction", "LookAction", "JumpAction"} |->
        CASE action = "MoveAction" -> "Move"
          [] action = "LookAction" -> "HandleLookAndAiming"
          [] action = "JumpAction" -> "HandleJump"]

\* An input event of the action delivered to the possessing controller: the
\* input component runs the handler bound to the action, if any.  Move,
\* HandleLookAndAiming and HandleJump move the character and its view and
\* touch no weapon; an action without a binding runs nothing.
InputEvent ==
    /\ ~hung
    /\ \E action \in InputActions :
          out' = [NoOutput EXCEPT
                    !.lastOp = IF action \in DOMAIN OnPossess
                               THEN OnPossess[action] ELSE action]
    /\ UNCHANGED <<WeaponData, fireControl, hung, shots, sinceShot,
                   surroundings>>

\* AFPSCharacterBase::FireWeapon: the attack of the handling component.
CharacterFireWeapon == WeaponAttack

\* A possessed character holding the rifle in an open level.
InitInput ==
    \E mode \in EFiringMode, rate \in 1..MaxFireRate :
        /\ Construct(FWeaponData(mode, rate, 2, 1, ESP_Single, 1))
        /\ Equipped

NextInput ==
    \/ InputEvent
    \/ CharacterFireWeapon
    \/ Tick

SpecInput == InitInput /\ [][NextInput]_vars

\* ------------------------------------------------------------- burst cadence
\* The rifle and the component configured alike for bursts of two with a
\* fire interval of one tick, in an open level; the cooldown ends with the
\* fire interval of the last shot or a tick after it.
InitCadence ==
    \E cooldown \in 1..2 :
        /\ Construct(FWeaponData(EFM_Burst, 1, 2, cooldown, ESP_Single, 1))
        /\ BaseWeapon = [w \in WeaponEntities |->
                            IF w = Rifle THEN InHand(TRUE) ELSE ABaseWeapon(TRUE)]
        /\ Component = [UWeaponHandlingComponent EXCEPT
                           !.FiringMode = EFM_Burst, !.WeaponFireRate = 1,
                           !.MaxBurstShotCount = 2,
                           !.BurstShotCooldown = cooldown,
                           !.WeaponRange = MaxLine, !.WeaponDamage = 1]
        /\ ActiveWeapon = Rifle
        /\ Level = [layout |-> "Open", scene |-> <<>>]

NextCadence ==
    \/ LaunchAttack
    \/ FireWeapon
    \/ Tick

SpecCadence == InitCadence /\ [][NextCadence]_vars

\* ------------------------------------------------------------- bullet trails
\* A rifle with a beam trail configured, under either shot pattern, with
\* or without the barrel trace test, in an open level.
InitTrail ==
    \E pattern \in EShotPattern, test \in BOOLEAN :
        /\ Construct([FWeaponData(EFM_Automatic, 1, 1, 0, pattern, 2) EXCEPT
                         !.BeamTrail = TRUE,
                         !.bShouldPerformWeaponTraceTest = test])
        /\ Equipped

NextTrail ==
    \/ LaunchAttack
    \/ Tick

SpecTrail == InitTrail /\ [][NextTrail]_vars

\* -------------------------------------------------------- burst recovery
\* A rifle in Burst mode with every burst cooldown from 0 on, in an open
\* level.  The timer manager is ticked by the world every frame, so a tick
\* that can happen does happen; and the player keeps pulling the trigger.
InitRecovery ==
    \E burst \in 1..2, cooldown \in 0..MaxCooldown :
        /\ Construct(FWeaponData(EFM_Burst, 1, burst, cooldown, ESP_Single, 1))
        /\ Equipped

NextRecovery ==
    \/ LaunchAttack
    \/ Tick

SpecRecovery ==
    /\ InitRecovery
    /\ [][NextRecovery]_vars
    /\ WF_vars(Tick)
    /\ WF_vars(LaunchAttack)

\* ------------------------------------------------------- a burst left open
\* The rifle and the component configured alike for bursts of the largest
\* size, with a fire interval of one or two ticks, in an open level; the
\* rifle is held, snaps to the ground when dropped, and can be dropped, picked
\* up again and re-armed between the shots of a burst.
InitPartial ==
    \E rate \in 1..MaxFireRate :
        /\ Construct(FWeaponData(EFM_Burst, rate, MaxBurst, 1, ESP_Single, 1))
        /\ BaseWeapon = [w \in WeaponEntities |->
                            IF w = Rifle THEN InHand(FALSE)
                            ELSE ABaseWeapon(TRUE)]
        /\ Component = [UWeaponHandlingComponent EXCEPT
                           !.FiringMode = EFM_Burst, !.WeaponFireRate = rate,
                           !.MaxBurstShotCount = MaxBurst,
                           !.BurstShotCooldown = 1,
                           !.WeaponRange = MaxLine, !.WeaponDamage = 1]
        /\ ActiveWeapon = Rifle
        /\ Level = [layout |-> "Open", scene |-> <<>>]

NextPartial ==
    \/ LaunchAttack
    \/ FireWeapon
    \/ Tick
    \/ ResetShouldFireSingleShot
    \/ SetOwningCharacter
    \/ Fall

SpecPartial == InitPartial /\ [][NextPartial]_vars

\* ------------------------------------------------------------- re-arming
\* A held rifle in each firing mode, with bursts of two and a cooldown
\* longer than the fire interval, in an open level.
InitRearm ==
    \E mode \in EFiringMode, rate \in 1..MaxFireRate :
        /\ Construct(FWeaponData(mode, rate, 2, MaxCooldown, ESP_Single, 1))
        /\ Equipped

SpecRearm == InitRearm /\ [][Next]_vars

\* ------------------------------------------------------- drops, one on another
\* A level whose ground has holes.  The rifle is held, configured with or
\* without physics simulation, and is dropped and picked up again and again
\* while the settle timers of earlier drops run.
InitSettle ==
    \E usePhysics \in BOOLEAN :
        /\ Construct(FWeaponData(EFM_Automatic, 1, 1, 0, ESP_Single, 1))
        /\ BaseWeapon = [w \in WeaponEntities |->
                            IF w = Rifle THEN InHand(usePhysics)
                            ELSE ABaseWeapon(TRUE)]
        /\ Component = UWeaponHandlingComponent
        /\ ActiveWeapon = Rifle
        /\ Level = [layout |-> "Field", scene |-> <<>>]

NextSettle ==
    \/ Fall
    \/ SetOwningCharacter
    \/ Tick

SpecSettle == InitSettle /\ [][NextSettle]_vars

\* ------------------------------------------------------ excluding actors
\* An open level.  The rifle is held, fires automatically and snaps to the
\* ground when dropped; actors are added to its ignore list one by one and
\* by the array, between shots, drops and changes of owner.
InitIgnore ==
    /\ Construct(FWeaponData(EFM_Automatic, 1, 1, 0, ESP_Single, 1))
    /\ BaseWeapon = [w \in WeaponEntities |->
                        IF w = Rifle THEN InHand(FALSE) ELSE ABaseWeapon(TRUE)]
    /\ Component = UWeaponHandlingComponent
    /\ ActiveWeapon = Rifle
    /\ Level = [layout |-> "Open", scene |-> <<>>]

NextIgnore ==
    \/ AddActorToIgnore
    \/ AddActorToIgnoreArray
    \/ LaunchAttack
    \/ Tick
    \/ SetOwningCharacter
    \/ Fall

SpecIgnore == InitIgnore /\ [][NextIgnore]_vars

TypeOK ==
    /\ bShouldFireWeapon \in BOOLEAN
    /\ bShouldBurstShotCooldown \in BOOLEAN
    /\ CurrentBurstShotCount \in 0..(Uint8Modulus - 1)
    /\ WeaponFireTimer \in 0..MaxFireRate
    /\ WeaponBurstCooldownTimer \in 0..MaxCooldown
    /\ hung \in BOOLEAN
    /\ shots \in 0..MaxShots
    /\ sinceShot \in 0..MaxElapsed

\* ------------------------------------------------------------------ claims
Mode == WeaponData.FiringMode
BurstSize == WeaponData.MaxBurstShotCount

\* The weapon is Ready: the ready flag is true and, in Burst mode, the weapon
\* is not in burst cooldown.
GateOpen ==
    bShouldFireWeapon /\ (Mode = EFM_Burst => ~bShouldBurstShotCooldown)

\* The last handler was an attack request that passed the gate and returned.
AttackAccepted ==
    out.lastOp = "LaunchAttack" /\ out.accepted /\ out.returned

\* C1 (as claimed): in Single mode, once an accepted attack has cleared the
\* ready flag, a fire-interval timer is pending that will set it again.
C1_SingleFireTimerPending ==
    (Mode = EFM_Single /\ ~bShouldFireWeapon) => WeaponFireTimer > 0

\* C2 (as claimed): in every firing mode an attack request made while Ready
\* leaves the ready flag false and one fire-rate timer pending whose delay
\* is the configured fire interval.
C2_AcceptedAttackSchedulesFireTimer ==
    AttackAccepted =>
        /\ ~bShouldFireWeapon
        /\ WeaponFireTimer = WeaponData.WeaponFireRate

\* C3: in Burst mode the counter follows the accepted attacks modulo the
\* burst size; the attack that completes a burst (the B-th counted from a
\* counter of 0) leaves the counter 0 and the cooldown flag true; an attack
\* request made while the cooldown flag is true emits no fire event; and the
\* cooldown flag is cleared only by the expiry of the cooldown timer.
C3_BurstEndsInCooldown ==
    /\ [](Mode = EFM_Burst /\ shots < MaxShots
            => CurrentBurstShotCount = shots % BurstSize)
    /\ [][Mode = EFM_Burst =>
            /\ (out'.lastOp = "LaunchAttack" /\ out'.accepted
                /\ CurrentBurstShotCount = BurstSize - 1)
                  => (CurrentBurstShotCount' = 0 /\ bShouldBurstShotCooldown')
            /\ (out'.lastOp = "LaunchAttack" /\ bShouldBurstShotCooldown)
                  => (~out'.accepted /\ out'.executeCalls = 0
                      /\ shots' = shots /\ bShouldBurstShotCooldown')
            /\ (bShouldBurstShotCooldown /\ ~bShouldBurstShotCooldown')
                  => (out'.lastOp = "Tick" /\ WeaponBurstCooldownTimer = 1
                      /\ "ResetBurstShotCooldown" \in out'.timersFired)]_vars

\* C3 witness: a full burst of three was fired, the fire-rate timer has
\* expired, the cooldown timer is still pending, and a request was dropped.
C3_Witness ==
    /\ Mode = EFM_Burst /\ BurstSize = 3 /\ shots = 3
    /\ CurrentBurstShotCount = 0 /\ bShouldBurstShotCooldown
    /\ bShouldFireWeapon /\ WeaponBurstCooldownTimer > 0
    /\ out.lastOp = "LaunchAttack" /\ ~out.accepted

\* C4: in Burst mode the burst counter stays in 0 .. burst size - 1 in every
\* reachable state.
C4_BurstCountBelowBurstSize ==
    Mode = EFM_Burst =>
        (0 <= CurrentBurstShotCount /\ CurrentBurstShotCount < BurstSize)

\* C4 witness: a burst of the largest size one shot short of completion.
C4_Witness ==
    /\ Mode = EFM_Burst /\ BurstSize = MaxBurst
    /\ CurrentBurstShotCount = BurstSize - 1
    /\ AttackAccepted

\* C5 (as claimed): the ready flag is false exactly when a fire-rate timer
\* is pending.
C5_NotReadyIffFireTimerPending ==
    (~bShouldFireWeapon) <=> (WeaponFireTimer > 0)

\* C6: an attack request made while the weapon is not Ready emits no fire
\* event and leaves the ready flag, the cooldown flag, the burst counter and
\* both timers unchanged; and a fire event occurs only within an attack
\* request that found the weapon Ready, never later on behalf of a dropped one.
C6_RejectedRequestHasNoEffect ==
    [][/\ (out'.lastOp = "LaunchAttack" /\ ~GateOpen)
            => /\ UNCHANGED fireControl
               /\ UNCHANGED <<WeaponData, shots, sinceShot>>
               /\ ~out'.accepted /\ out'.executeCalls = 0
               /\ out'.traces = 0 /\ out'.damage = <<>>
       /\ (out'.executeCalls > 0 \/ shots' # shots)
            => (out'.lastOp = "LaunchAttack" /\ GateOpen)]_vars

\* C6 witness: a request was dropped while the fire-rate timer was pending.
C6_Witness ==
    /\ out.lastOp = "LaunchAttack" /\ ~out.accepted
    /\ ~bShouldFireWeapon /\ WeaponFireTimer > 0 /\ shots > 0

\* C7: an attack request that finds the weapon Ready calls ExecuteWeaponFire
\* exactly once and clears the ready flag, under either shot pattern; every
\* other step (a dropped request, a timer expiry, a reset) calls it not at
\* all and resolves no trace.
C7_OneFireEventPerAcceptedAttack ==
    [][IF out'.lastOp = "LaunchAttack" /\ GateOpen
       THEN /\ out'.accepted /\ out'.executeCalls = 1
            /\ shots' = Min(shots + 1, MaxShots)
            /\ ~bShouldFireWeapon'
       ELSE /\ out'.executeCalls = 0 /\ out'.traces = 0
            /\ shots' = shots]_vars

\* C7 witness: an accepted attack under the Spread pattern with two pellets.
C7_Witness ==
    /\ AttackAccepted /\ WeaponData.ShotPattern = ESP_Spread
    /\ WeaponData.PelletsPerBullet = 2
    /\ out.executeCalls = 1 /\ out.traces = 2

\* C8 (as claimed): under the Spread pattern with N pellets per shot, an
\* accepted attack performs exactly N trace resolutions and at most N damage
\* applications and then returns, for every N >= 1.
C8_SpreadResolvesNPellets ==
    (out.lastOp = "LaunchAttack" /\ out.accepted
     /\ WeaponData.ShotPattern = ESP_Spread)
        => /\ out.returned
           /\ out.traces = WeaponData.PelletsPerBullet
           /\ Len(out.damage) <= WeaponData.PelletsPerBullet

\* C9: in the burst scenario the first three requests, spaced more than the
\* fire interval apart, are accepted; a request less than the cooldown after
\* the third accepted one is dropped; a request made the cooldown or more
\* after it is accepted.
C9_BurstScenario ==
    [][out'.lastOp = "LaunchAttack" =>
          /\ (shots = 0 => out'.accepted)
          /\ (shots \in {1, 2} /\ sinceShot > WeaponData.WeaponFireRate)
                => out'.accepted
          /\ (shots = 3 /\ sinceShot < WeaponData.BurstShotCooldown)
                => ~out'.accepted
          /\ (shots = 3 /\ sinceShot >= WeaponData.BurstShotCooldown)
                => out'.accepted]_vars

\* C9 witness: the fourth attack of the scenario has been accepted, which
\* takes the full cooldown after the third.
C9_Witness ==
    /\ Mode = EFM_Burst /\ BurstSize = 3 /\ WeaponData.BurstShotCooldown = 5
    /\ shots = 4 /\ AttackAccepted /\ CurrentBurstShotCount = 1

\* The damage applications the claim asks of a shot: one on every hit actor
\* that has the damage-receiving interface, with the configured damage.
DamageOwed(hits) ==
    LET owed == SelectSeq(hits, LAMBDA h :
                    h.bBlockingHit /\ ImplementsDamageInterface(h.Actor))
    IN  [i \in 1..Len(owed) |->
            [target |-> owed[i].Actor, amount |-> WeaponData.WeaponDamage]]

\* C10 (as claimed): an accepted shot applies the weapon damage to every hit
\* actor that has the damage-receiving interface, once per pellet, and to
\* nothing else.
C10_DamageAppliedToHitActor ==
    AttackAccepted => out.damage = DamageOwed(out.hits)
\* ------------------------------------------------------- trace resolution
\* The last operation was a shot of the rifle, or of the component, that
\* went through the gate and returned.
WeaponShot == out.lastOp = "LaunchAttack" /\ out.accepted /\ out.returned
ComponentShot == out.lastOp = "FireWeapon" /\ out.accepted /\ out.returned

\* The configuration the last shot was fired with.
ShotRange ==
    IF out.lastOp = "FireWeapon" THEN Component.WeaponRange
    ELSE WeaponData.WeaponRange
ShotTraceTest ==
    IF out.lastOp = "FireWeapon" THEN Component.bShouldPerformWeaponTraceTest
    ELSE WeaponData.bShouldPerformWeaponTraceTest

\* The scene the k-th trace of the last shot met.
ShotScene(k) == out.world[((k - 1) % Len(out.world)) + 1]

\* In the scene, the aim ray of the last shot meets no actor within range
\* that the shot does not ignore.
AimRayMisses(scene) ==
    \A i \in 1..Min(ShotRange, Len(scene.aim)) : scene.aim[i] \in out.ignored

\* C11: whenever the aim ray of a shot hits nothing, the outcome of the aim
\* stage (ARayCastWeapon::ScreenTrace, which is also what the rifle's
\* WeaponTrace then returns, and UWeaponHandlingComponent::ScreenTrace)
\* reports no hit, has no hit actor, and ends at origin + direction * range.
C11_AimMissReportsNoHit ==
    (WeaponShot \/ (ComponentShot /\ ~ShotTraceTest)) =>
        \A k \in 1..Len(out.hits) :
            (ShotScene(k).bPlayerController /\ AimRayMisses(ShotScene(k))) =>
                /\ ~out.hits[k].bBlockingHit
                /\ out.hits[k].Actor = NoActor
                /\ out.hits[k].TraceStart = Point("Aim", 0)
                /\ out.hits[k].TraceEnd = Point("Aim", ShotRange)

\* A rifle shot whose aim ray passes an ignored actor, or falls short of an
\* actor, and reports no hit at the end of its range.
C11_Witness ==
    /\ WeaponShot
    /\ Len(out.hits) = 1
    /\ ShotScene(1).aim # <<>>
    /\ AimRayMisses(ShotScene(1))
    /\ ~out.hits[1].bBlockingHit
    /\ out.hits[1].TraceEnd = Point("Aim", ShotRange)

\* The last operation was a shot with the barrel trace test enabled that went
\* through the gate, whether or not it returned.
TraceTestShot ==
    out.lastOp \in {"LaunchAttack", "FireWeapon"} /\ out.accepted /\ ShotTraceTest

\* Where the aim ray of the last shot stops in the scene: the nearest actor
\* within range that the shot does not ignore.
AimTarget(scene) ==
    CHOOSE i \in 1..Min(ShotRange, Len(scene.aim)) :
        /\ scene.aim[i] \notin out.ignored
        /\ \A j \in 1..(i - 1) : scene.aim[j] \in out.ignored

\* In the scene, an actor the last shot does not ignore stands between the
\* barrel and the target; FirstObstacle is the one nearest the barrel.
BarrelRayBlocked(scene) ==
    \E i \in 1..Len(scene.obstacles) : scene.obstacles[i] \notin out.ignored

FirstObstacle(scene) ==
    CHOOSE i \in 1..Len(scene.obstacles) :
        /\ scene.obstacles[i] \notin out.ignored
        /\ \A j \in 1..(i - 1) : scene.obstacles[j] \in out.ignored

\* C12: with the barrel trace test enabled, when the aim ray hits a target
\* and an obstacle blocks the ray from the barrel toward that target, the
\* final outcome of the shot is the barrel ray's impact: the obstacle
\* nearest the barrel and the point where the barrel ray meets it.
C12_BarrelRayOutcomeIsFinal ==
    (TraceTestShot /\ out.returned) =>
        \A k \in 1..Len(out.hits) :
            (/\ ShotScene(k).bBarrelSocket
             /\ ~AimRayMisses(ShotScene(k))
             /\ BarrelRayBlocked(ShotScene(k))) =>
                /\ out.hits[k].bBlockingHit
                /\ out.hits[k].Actor =
                       ShotScene(k).obstacles[FirstObstacle(ShotScene(k))]
                /\ out.hits[k].ImpactPoint =
                       Point("Barrel", FirstObstacle(ShotScene(k)))

\* C13: with the barrel trace test enabled, the barrel ray starts at the
\* barrel and runs toward the point the aim ray found, and it ignores the
\* actors the aim ray ignores: the final hit actor of a shot is never one of
\* the ignored actors.
C13_BarrelRayKeepsExclusions ==
    (TraceTestShot /\ out.returned) =>
        \A k \in 1..Len(out.hits) :
            /\ out.hits[k].bBlockingHit => out.hits[k].Actor \notin out.ignored
            /\ (ShotScene(k).bBarrelSocket /\ ~AimRayMisses(ShotScene(k))) =>
                   /\ out.hits[k].TraceStart = Point("Barrel", 0)
                   /\ out.hits[k].TraceEnd.along = "Barrel"

\* C15: with the barrel trace test enabled and no barrel socket on the mesh,
\* the shot returns to its caller and its final outcome is the outcome of
\* the aim ray: same hit flag, same hit actor, same impact point.
C15_MissingSocketKeepsAimOutcome ==
    (TraceTestShot /\ \E k \in 1..Len(out.world) : ~out.world[k].bBarrelSocket) =>
        /\ out.returned
        /\ ~out.faulted
        /\ \A k \in 1..Len(out.hits) :
               ~ShotScene(k).bBarrelSocket =>
                   IF AimRayMisses(ShotScene(k))
                   THEN /\ ~out.hits[k].bBlockingHit
                        /\ out.hits[k].Actor = NoActor
                   ELSE /\ out.hits[k].bBlockingHit
                        /\ out.hits[k].Actor =
                               ShotScene(k).aim[AimTarget(ShotScene(k))]
                        /\ out.hits[k].ImpactPoint =
                               Point("Aim", AimTarget(ShotScene(k)))

\* ------------------------------------------------------ owning and dropping
\* C16: whenever the rifle is equipped (a character becomes its owner), its
\* fire control is reset: ready, not in cooldown, burst count 0, whatever
\* state firing or dropping left it in.
C16_EquipResetsFireControl ==
    [][(/\ out'.lastOp = "SetOwningCharacter"
        /\ BaseWeapon[Rifle].OwningCharacter = NoCharacter
        /\ BaseWeapon'[Rifle].OwningCharacter # NoCharacter)
       => (/\ bShouldFireWeapon'
           /\ ~bShouldBurstShotCooldown'
           /\ CurrentBurstShotCount' = 0)]_vars

\* A settle timer of weapon w is pending, and expires within SettleDuration.
SettleTimerPending(w) ==
    \E i \in 1..Len(BaseWeapon[w].SimulationTimers) :
        BaseWeapon[w].SimulationTimers[i] \in 1..SettleDuration

\* C17: a drop of a weapon configured with physics simulation switches the
\* simulation on and starts a settle timer of SettleDuration; the expiry of
\* a settle timer switches the simulation off; the simulation is never on
\* without a settle timer pending, so it is never left on forever.
C17_PhysicsSettles ==
    /\ [](\A w \in WeaponEntities :
            /\ BaseWeapon[w].bSimulatePhysics => SettleTimerPending(w)
            /\ (/\ out.lastOp = "Fall"
                 /\ out.target = w
                 /\ BaseWeapon[w].bShouldUsePhysicsSimulation)
                => /\ BaseWeapon[w].bSimulatePhysics
                   /\ BaseWeapon[w].SimulationTimers # <<>>
                   /\ BaseWeapon[w].SimulationTimers[
                          Len(BaseWeapon[w].SimulationTimers)] = SettleDuration)
    /\ [][\A w \in WeaponEntities :
            (/\ out'.lastOp = "Tick"
             /\ \E i \in 1..Len(BaseWeapon[w].SimulationTimers) :
                    BaseWeapon[w].SimulationTimers[i] = 1)
            => ~BaseWeapon'[w].bSimulatePhysics]_vars

\* The rifle was dropped with physics simulation, its settle timer has just
\* expired, and the simulation is off.
C17_Witness ==
    /\ out.lastOp = "Tick"
    /\ "SimulationTimer" \in out.timersFired
    /\ BaseWeapon[Rifle].OwningCharacter = NoCharacter
    /\ BaseWeapon[Rifle].bShouldUsePhysicsSimulation
    /\ ~BaseWeapon[Rifle].bSimulatePhysics
    /\ BaseWeapon[Rifle].SimulationTimers = <<>>

\* C18: a drop of a weapon configured without physics simulation, over
\* ground, moves the weapon to the point where the downward probe hit,
\* leaves the physics simulation off and starts no settle timer.
C18_DropSnapsToGround ==
    \A w \in WeaponEntities :
        (/\ out.lastOp = "Fall"
         /\ out.target = w
         /\ out.ground
         /\ ~BaseWeapon[w].bShouldUsePhysicsSimulation)
        => /\ BaseWeapon[w].ActorLocation = "GroundImpactPoint"
           /\ ~BaseWeapon[w].bSimulatePhysics
           /\ BaseWeapon[w].SimulationTimers = <<>>

\* The rifle, configured without physics simulation, was just dropped over
\* ground and lies at the impact point of the probe.
C18_Witness ==
    /\ out.lastOp = "Fall"
    /\ out.target = Rifle
    /\ out.ground
    /\ ~BaseWeapon[Rifle].bShouldUsePhysicsSimulation
    /\ BaseWeapon[Rifle].OwningCharacter = NoCharacter
    /\ BaseWeapon[Rifle].ActorLocation = "GroundImpactPoint"

\* What a weapon is apart from its settle timers and what they switch.
Standing(b) ==
    [OwningCharacter |-> b.OwningCharacter, ActorsToIgnore |-> b.ActorsToIgnore,
     bShouldUsePhysicsSimulation |-> b.bShouldUsePhysicsSimulation,
     bAttached |-> b.bAttached, ActorLocation |-> b.ActorLocation]

\* C19: a drop leaves the fire-rate and burst-cooldown timers of the rifle
\* running and its fire control as it is; a tick in which the rifle has no
\* owner only lets an expiring fire-rate timer set the ready flag and an
\* expiring cooldown timer clear the cooldown flag, and changes neither the
\* burst counter, nor an owner, nor anything else of any weapon.
C19_DropKeepsFireTimers ==
    /\ [][out'.lastOp = "Fall" => UNCHANGED fireControl]_vars
    /\ [][(out'.lastOp = "Tick" /\ BaseWeapon[Rifle].OwningCharacter = NoCharacter)
          => /\ bShouldFireWeapon' =
                   (IF WeaponFireTimer = 1 THEN TRUE ELSE bShouldFireWeapon)
             /\ bShouldBurstShotCooldown' =
                   (IF WeaponBurstCooldownTimer = 1 THEN FALSE
                    ELSE bShouldBurstShotCooldown)
             /\ CurrentBurstShotCount' = CurrentBurstShotCount
             /\ \A w \in WeaponEntities :
                   Standing(BaseWeapon'[w]) = Standing(BaseWeapon[w])
             /\ UNCHANGED <<WeaponData, ActiveWeapon>>]_vars

\* The rifle has no owner and a fire-control timer set before the drop has
\* just expired.
C19_Witness ==
    /\ out.lastOp = "Tick"
    /\ BaseWeapon[Rifle].OwningCharacter = NoCharacter
    /\ out.timersFired \cap {"ResetShouldFireWeapon", "ResetBurstShotCooldown"} # {}
    /\ shots > 0

\* The attack that leads to the next state went through the gate with a
\* reference missing: the rifle has no owning character, or the scene lacks
\* the game viewport, the player controller, or the actor owner at whose
\* location the fire sound is played.
AttackWithMissingReference ==
    /\ out'.lastOp = "LaunchAttack"
    /\ out'.accepted
    /\ \/ BaseWeapon[Rifle].OwningCharacter = NoCharacter
       \/ \E k \in 1..Len(out'.world) :
             \/ ~out'.world[k].bGameViewport
             \/ ~out'.world[k].bPlayerController
             \/ ~out'.world[k].bActorOwner /\ WeaponData.WeaponFireSound

\* C14: an attack on a weapon with a missing reference completes without a
\* fault: the handler returns, every trace reports no hit, no damage is
\* applied and the fire-control state is left as it was.
C14_MissingReferenceIsNoOp ==
    [][AttackWithMissingReference
       => (/\ out'.returned
           /\ ~out'.faulted
           /\ ~hung'
           /\ \A k \in 1..Len(out'.hits) :
                 ~out'.hits[k].bBlockingHit /\ out'.hits[k].Actor = NoActor
           /\ out'.damage = <<>>
           /\ UNCHANGED fireControl)]_vars

\* ------------------------------------------------------- the active binding
\* The weapons the player owns.
Held == {w \in WeaponEntities : BaseWeapon[w].OwningCharacter = Player}

\* C20: after any sequence of equip, unequip and attack operations the
\* component has at most one active weapon: the weapons the player holds
\* are the bound one and no other; and the bound weapon is not in the
\* dropped state: it has its owner and its mesh is attached.
C20_OneActiveWeaponNeverDropped ==
    /\ ActiveWeapon \in WeaponEntities \cup {NoWeapon}
    /\ Cardinality(Held) <= 1
    /\ Held = (IF ActiveWeapon = NoWeapon THEN {} ELSE {ActiveWeapon})
    /\ \A w \in WeaponEntities :
          ActiveWeapon = w =>
              /\ BaseWeapon[w].OwningCharacter # NoCharacter
              /\ BaseWeapon[w].bAttached

\* The sidearm was equipped while the rifle was bound: the rifle lies
\* dropped, after having fired, and the sidearm is the active weapon.
C20_Witness ==
    /\ out.lastOp = "EquipWeapon"
    /\ ActiveWeapon = Sidearm
    /\ BaseWeapon[Rifle].OwningCharacter = NoCharacter
    /\ BaseWeapon[Rifle].ActorLocation = "GroundImpactPoint"
    /\ shots > 0

\* ------------------------------------------------------- equip and attack
\* The weapon was dropped by this step: its owner is cleared, its mesh is
\* detached from the character and it lies in the level on its own.
DroppedNow(w) ==
    /\ BaseWeapon'[w].OwningCharacter = NoCharacter
    /\ ~BaseWeapon'[w].bAttached
    /\ BaseWeapon'[w].ActorLocation \in {"Placed", "GroundImpactPoint"}

\* The weapon is bound after this step: it is the active weapon, the player
\* owns it and carries it.
BoundNow(w) ==
    /\ ActiveWeapon' = w
    /\ BaseWeapon'[w].OwningCharacter = Player
    /\ BaseWeapon'[w].bAttached

\* C21: equip() with no active weapon and a weapon in range makes that
\* weapon active; with an active weapon and another weapon in range the
\* current weapon is dropped (owner cleared, independent placement
\* restored) and the new one becomes active; with an active weapon and none
\* in range the active weapon is dropped and the binding is empty.
C21_EquipBindsAndDrops ==
    [][out'.lastOp = "EquipWeapon" =>
          /\ (ActiveWeapon = NoWeapon /\ out'.target # NoWeapon)
                => (BoundNow(out'.target)
                    /\ \A w \in WeaponEntities \ {out'.target} :
                          BaseWeapon'[w] = BaseWeapon[w])
          /\ (ActiveWeapon # NoWeapon /\ out'.target # NoWeapon)
                => (DroppedNow(ActiveWeapon) /\ BoundNow(out'.target))
          /\ (ActiveWeapon # NoWeapon /\ out'.target = NoWeapon)
                => (DroppedNow(ActiveWeapon) /\ ActiveWeapon' = NoWeapon)]_vars

\* C21 witness: the rifle was equipped while the sidearm was bound: the
\* sidearm lies dropped on the ground and the rifle is the active weapon.
C21_Witness ==
    /\ out.lastOp = "EquipWeapon" /\ out.target = Rifle
    /\ ActiveWeapon = Rifle
    /\ BaseWeapon[Rifle].OwningCharacter = Player
    /\ BaseWeapon[Sidearm].OwningCharacter = NoCharacter
    /\ ~BaseWeapon[Sidearm].bAttached
    /\ BaseWeapon[Sidearm].ActorLocation = "GroundImpactPoint"

\* C22: attack() on the handling component forwards to the active weapon's
\* LaunchAttack exactly once when a weapon is bound: with the rifle bound
\* the step is one attack request on the rifle, which emits one fire event
\* if the gate is open and none otherwise; with no weapon bound it is a
\* no-op: no fire event, no state change and no fault.
C22_AttackForwardsOrNoOp ==
    [][/\ out'.lastOp = "LaunchAttack"
            => /\ ActiveWeapon = Rifle
               /\ out'.executeCalls = (IF GateOpen THEN 1 ELSE 0)
               /\ out'.accepted = GateOpen
               /\ shots' = Min(shots + out'.executeCalls, MaxShots)
       /\ out'.lastOp = "WeaponAttack"
            => /\ ActiveWeapon # Rifle
               /\ out'.target = ActiveWeapon
               /\ UNCHANGED <<WeaponData, fireControl, hung, shots, sinceShot,
                              surroundings>>
               /\ out'.executeCalls = 0 /\ out'.traces = 0
               /\ ~out'.faulted /\ ~hung'
       /\ (ActiveWeapon = NoWeapon /\ out'.lastOp \notin {"EquipWeapon", "Tick"})
            => /\ out'.lastOp \in {"WeaponAttack", "UnequipWeapon"}
               /\ shots' = shots]_vars

\* C22 witness: the rifle fired while it was bound, was unequipped, and an
\* attack with nothing bound then did nothing.
C22_Witness ==
    /\ out.lastOp = "WeaponAttack" /\ out.target = NoWeapon
    /\ ActiveWeapon = NoWeapon
    /\ shots > 0 /\ ~hung

ShotPattern ==
    IF out.lastOp = "FireWeapon" THEN Component.ShotPattern
    ELSE WeaponData.ShotPattern
ShotSpreadMin ==
    IF out.lastOp = "FireWeapon" THEN Component.MinimumSpreadRange
    ELSE WeaponData.MinimumSpreadRange
ShotSpreadMax ==
    IF out.lastOp = "FireWeapon" THEN Component.MaximumSpreadRange
    ELSE WeaponData.MaximumSpreadRange
ShotPellets ==
    IF out.lastOp = "FireWeapon" THEN Component.PallatesPerBullet
    ELSE WeaponData.PelletsPerBullet

\* The offset the random number generator holds for the k-th pellet of the
\* last shot: one draw per axis, each taken into the spread range.
SpreadOffset(k) ==
    [axis \in 1..3 |->
        RandRange(ShotSpreadMin, ShotSpreadMax, ShotScene(k).rand[axis])]

\* The offset by which the aim ray of the k-th pellet was displaced.
RayOffset(k) ==
    IF "by" \in DOMAIN out.hits[k].TraceEnd THEN out.hits[k].TraceEnd.by
    ELSE <<0, 0, 0>>

\* C24 (as claimed): under the Spread pattern a shot produces one trace
\* outcome per pellet, and the aim ray of each pellet is displaced by the
\* offset drawn for that pellet, on each axis separately, from
\* [spreadMin, spreadMax]: whatever the generator draws for a pellet within
\* the range is the offset of that pellet's ray, so every offset is
\* possible, none lies outside the range, and two pellets with different
\* draws travel different rays.
C24_SpreadPerturbsEachPellet ==
    ((WeaponShot \/ ComponentShot) /\ ShotPattern = ESP_Spread) =>
        /\ Len(out.hits) = ShotPellets
        /\ \A k \in 1..Len(out.hits) :
              /\ RayOffset(k) = SpreadOffset(k)
              /\ \A axis \in 1..3 :
                    /\ ShotSpreadMin <= RayOffset(k)[axis]
                    /\ RayOffset(k)[axis] <= ShotSpreadMax

\* C24, the component alone: the pellets of a FireWeapon call under the
\* Spread pattern are displaced as claimed.
C24_ComponentSpreadPerturbsEachPellet ==
    (ComponentShot /\ ShotPattern = ESP_Spread) =>
        /\ Len(out.hits) = ShotPellets
        /\ \A k \in 1..Len(out.hits) :
              /\ RayOffset(k) = SpreadOffset(k)
              /\ \A axis \in 1..3 :
                    /\ ShotSpreadMin <= RayOffset(k)[axis]
                    /\ RayOffset(k)[axis] <= ShotSpreadMax

\* The two pellets of one shot of the weapon never travel different rays.
C24_WeaponPelletsShareOneRay ==
    (WeaponShot /\ ShotPattern = ESP_Spread) =>
        \A k \in 1..Len(out.hits) :
            /\ out.hits[k].TraceEnd = Point("Aim", ShotRange)
            /\ out.hits[k].TraceStart = Point("Aim", 0)

\* ------------------------------------------------------------ burst cadence
\* C25 (as claimed): in Burst mode one attack request on a ready weapon
\* emits the burst-size count of shots and is followed by the cooldown.
C25_OneRequestEmitsWholeBurst ==
    [][(Mode = EFM_Burst /\ out'.lastOp = "LaunchAttack" /\ GateOpen
        /\ out'.returned)
          => /\ out'.executeCalls = BurstSize
             /\ bShouldBurstShotCooldown']_vars

\* C25 (amended): in Burst mode one attack request on a ready weapon emits
\* one shot; the request that brings the count of the burst to the burst
\* size, and no other, starts the cooldown, so a burst of B shots takes B
\* accepted requests.
C25_OneRequestEmitsOneShotOfBurst ==
    [][(Mode = EFM_Burst /\ out'.lastOp = "LaunchAttack" /\ GateOpen
        /\ out'.returned)
          => /\ out'.executeCalls = 1
             /\ shots' = Min(shots + 1, MaxShots)
             /\ bShouldBurstShotCooldown'
                    = (CurrentBurstShotCount + 1 >= BurstSize)
             /\ bShouldBurstShotCooldown'
                    => /\ CurrentBurstShotCount' = 0
                       /\ WeaponBurstCooldownTimer' = WeaponData.BurstShotCooldown
                       /\ shots' < MaxShots => shots' % BurstSize = 0
             /\ ~bShouldBurstShotCooldown'
                    => /\ CurrentBurstShotCount' = CurrentBurstShotCount + 1
                       /\ UNCHANGED WeaponBurstCooldownTimer]_vars

\* C25 witness: the second request of a burst of two was accepted and
\* started the cooldown.
C25_Witness ==
    /\ Mode = EFM_Burst /\ BurstSize = 2 /\ shots = 2
    /\ AttackAccepted /\ out.executeCalls = 1
    /\ bShouldBurstShotCooldown /\ CurrentBurstShotCount = 0
    /\ WeaponBurstCooldownTimer = WeaponData.BurstShotCooldown
    /\ WeaponBurstCooldownTimer > 0

\* ------------------------------------------------------------- input chain
\* C26 (as claimed): a fire input event delivered to the possessing
\* controller reaches the weapon: the step that handles it is the call of
\* the character's FireWeapon, hence of the component's attack, hence of the
\* active weapon's LaunchAttack, which the gate accepts when it is open.
C26_FireInputReachesWeapon ==
    [][out'.lastOp \in {"FireWeaponAction", "HandleWeaponFire"}
          => /\ ActiveWeapon = Rifle
             /\ out'.target = Rifle
             /\ out'.accepted = GateOpen
             /\ out'.executeCalls = (IF GateOpen THEN 1 ELSE 0)]_vars

\* The fire input event never changes anything of the weapon.
C26_FireInputChangesNothing ==
    [][out'.lastOp = "FireWeaponAction"
          => /\ UNCHANGED <<WeaponData, fireControl, hung, shots, sinceShot,
                            surroundings>>
             /\ out'.executeCalls = 0 /\ ~out'.accepted]_vars

\* ------------------------------------------------------------- the timers
\* The callbacks the timers of the rifle ran in this step.
FireTimerExpires == "ResetShouldFireWeapon" \in out'.timersFired
CooldownTimerExpires == "ResetBurstShotCooldown" \in out'.timersFired

\* The callbacks the timers of the component ran in this step.
ComponentFireTimerExpires ==
    "UWeaponHandlingComponent::ResetShouldFireWeapon" \in out'.timersFired
ComponentCooldownTimerExpires ==
    "UWeaponHandlingComponent::ResetBurstShotCooldown" \in out'.timersFired

\* C27: the two timers act independently, on the rifle and on the
\* component alike: the expiry of the fire-interval timer sets the ready
\* flag and leaves the cooldown flag and the burst counter unchanged; the
\* expiry of the burst-cooldown timer clears the cooldown flag and leaves
\* the ready flag and the burst counter unchanged; and each callback is
\* idempotent: whatever the flag was, it leaves the flag at the value a
\* second call would leave it at.
C27_TimersActIndependently ==
    /\ [](ResetShouldFireWeapon = TRUE /\ ResetBurstShotCooldown = FALSE)
    /\ [][out'.lastOp = "Tick" =>
            /\ bShouldFireWeapon' =
                   (IF FireTimerExpires THEN TRUE ELSE bShouldFireWeapon)
            /\ bShouldBurstShotCooldown' =
                   (IF CooldownTimerExpires THEN FALSE
                    ELSE bShouldBurstShotCooldown)
            /\ CurrentBurstShotCount' = CurrentBurstShotCount
            /\ Component'.bShouldFireWeapon =
                   (IF ComponentFireTimerExpires THEN TRUE
                    ELSE Component.bShouldFireWeapon)
            /\ Component'.bShouldBurstShotCooldown =
                   (IF ComponentCooldownTimerExpires THEN FALSE
                    ELSE Component.bShouldBurstShotCooldown)
            /\ Component'.CurrentBurstShotCount = Component.CurrentBurstShotCount
            /\ FireTimerExpires <=> WeaponFireTimer = 1
            /\ CooldownTimerExpires <=> WeaponBurstCooldownTimer = 1
            /\ ComponentFireTimerExpires <=> Component.WeaponFireTimer = 1
            /\ ComponentCooldownTimerExpires
                   <=> Component.WeaponBurstCooldownTImer = 1]_vars

\* C27 witness: after a full burst of the rifle and of the component, the
\* fire-interval timers of both have expired alone: both are ready again and
\* both are still in cooldown, with the cooldown timers pending.
C27_Witness ==
    /\ out.lastOp = "Tick"
    /\ out.timersFired = {"ResetShouldFireWeapon",
                          "UWeaponHandlingComponent::ResetShouldFireWeapon"}
    /\ bShouldFireWeapon /\ bShouldBurstShotCooldown
    /\ WeaponBurstCooldownTimer = 1 /\ CurrentBurstShotCount = 0
    /\ Component.bShouldFireWeapon /\ Component.bShouldBurstShotCooldown
    /\ Component.WeaponBurstCooldownTImer = 1

\* C28: in Burst mode an attack request is accepted only when neither the
\* fire-interval timer nor the burst-cooldown timer of the last shot is
\* still pending: after the last shot of a burst both must have expired, in
\* either order, and the expiry of one alone is not sufficient; within a
\* burst the cooldown timer is not running and the expiry of the
\* fire-interval timer alone lets the next request through.  With a
\* positive cooldown the request made after both expiries is accepted.
C28_BurstNeedsBothTimers ==
    /\ [](Mode = EFM_Burst /\ CurrentBurstShotCount > 0
            => (WeaponBurstCooldownTimer = 0 /\ ~bShouldBurstShotCooldown))
    /\ [][(Mode = EFM_Burst /\ out'.lastOp = "LaunchAttack") =>
            /\ out'.accepted
                  => (WeaponFireTimer = 0 /\ WeaponBurstCooldownTimer = 0)
            /\ (WeaponFireTimer > 0 \/ WeaponBurstCooldownTimer > 0)
                  => (~out'.accepted /\ shots' = shots)
            /\ (CurrentBurstShotCount > 0 /\ WeaponFireTimer = 0)
                  => out'.accepted
            /\ (WeaponFireTimer = 0 /\ WeaponBurstCooldownTimer = 0
                /\ WeaponData.BurstShotCooldown > 0)
                  => out'.accepted]_vars

\* C28 witness: a request made after a burst of two, once the cooldown timer
\* had expired and the longer fire-interval timer was still pending, was
\* dropped.
C28_Witness ==
    /\ Mode = EFM_Burst /\ BurstSize = 2 /\ shots = 2
    /\ WeaponData.WeaponFireRate = 2 /\ WeaponData.BurstShotCooldown = 1
    /\ out.lastOp = "LaunchAttack" /\ ~out.accepted
    /\ WeaponFireTimer = 1 /\ WeaponBurstCooldownTimer = 0
    /\ ~bShouldBurstShotCooldown /\ ~bShouldFireWeapon

\* The other order: the fire-interval timer expired first and the request
\* made before the expiry of the cooldown timer was dropped; and the first
\* request of the next burst was accepted after both expiries.
C28_OtherOrder ==
    /\ Mode = EFM_Burst /\ BurstSize = 2 /\ shots = 2
    /\ out.lastOp = "LaunchAttack" /\ ~out.accepted
    /\ WeaponFireTimer = 0 /\ WeaponBurstCooldownTimer > 0
    /\ bShouldBurstShotCooldown /\ bShouldFireWeapon

C28_NextBurst ==
    /\ Mode = EFM_Burst /\ BurstSize = 2 /\ shots = 3
    /\ WeaponData.WeaponFireRate = 2 /\ WeaponData.BurstShotCooldown = 1
    /\ AttackAccepted /\ sinceShot = 0 /\ CurrentBurstShotCount = 1

\* ------------------------------------------------------------------ pacing
\* This step emits a fire event.
FireEvent == out'.lastOp = "LaunchAttack" /\ out'.executeCalls > 0

\* This step resets the ready flag: the fire-rate timer expires, or
\* ResetShouldFireSingleShot is called in Single mode.
ReadyReset ==
    \/ out'.lastOp = "Tick" /\ "ResetShouldFireWeapon" \in out'.timersFired
    \/ out'.lastOp = "ResetShouldFireSingleShot" /\ Mode = EFM_Single

\* Between two consecutive fire events the ready flag is reset: a fire event
\* needs the flag set and clears it, and only a reset sets it.
ResetBetweenFireEvents ==
    /\ FireEvent => (bShouldFireWeapon /\ ~bShouldFireWeapon')
    /\ (~bShouldFireWeapon /\ bShouldFireWeapon') => ReadyReset

\* C29 (as claimed): between two consecutive fire events of the weapon there
\* is a reset of the ready flag, and no two fire events occur within one
\* fire interval, however many attack requests arrive: a fire event after
\* the first comes no sooner than the fire interval after the one before.
C29_FireEventsPaced ==
    [][/\ ResetBetweenFireEvents
       /\ (FireEvent /\ shots > 0)
             => sinceShot >= WeaponData.WeaponFireRate]_vars

\* C29, first half: the ready flag is reset between two fire events.
C29_ReadyResetBetweenFireEvents ==
    [][ResetBetweenFireEvents]_vars

\* C29, second half outside Single mode: with a fire-rate timer, two fire
\* events are at least the fire interval apart.
C29_TimerPacesFireEvents ==
    [][(FireEvent /\ shots > 0 /\ Mode # EFM_Single)
          => sinceShot >= WeaponData.WeaponFireRate]_vars

\* ------------------------------------------------------------ bullet trails
\* Where the trail of a trace outcome belongs: the impact point on a hit,
\* the end-of-range point on a miss.
TrailTarget(hit) ==
    IF hit.bBlockingHit THEN hit.ImpactPoint ELSE hit.TraceEnd

\* C30 (as claimed): for every shot and every pellet of the weapon the trace
\* is resolved before the cosmetics are spawned, and the bullet trail
\* targets the outcome of that same trace (the impact point on a hit, the
\* end-of-range point on a miss), never the hit result left by an earlier
\* pellet or handed in by the caller.
C30_TrailTargetsOwnTrace ==
    (WeaponShot /\ WeaponData.BeamTrail) =>
        /\ Len(out.trails) = Len(out.hits)
        /\ \A k \in 1..Len(out.hits) :
              out.trails[k] = TrailTarget(out.hits[k])

\* What the weapon does: the trail of each pellet targets what the hit
\* result held when the pellet was shot: the caller's for the first pellet,
\* the outcome of the pellet before for every other.
C30_TrailTargetsEarlierResult ==
    (WeaponShot /\ WeaponData.BeamTrail) =>
        /\ Len(out.trails) = Len(out.hits)
        /\ \A k \in 1..Len(out.hits) :
              out.trails[k] = TrailTarget(IF k = 1 THEN FHitResult
                                          ELSE out.hits[k - 1])

\* ------------------------------------------------ the barrel ray on an aim miss
\* C31 (as claimed): with the barrel trace test enabled, a shot of the rifle
\* whose aim ray hits nothing still casts the barrel ray, from the barrel to
\* the end of the aim ray, and an obstacle standing between the barrel and
\* that point is the reported hit.
C31_BarrelRayCastOnAimMiss ==
    (WeaponShot /\ ShotTraceTest) =>
        \A k \in 1..Len(out.hits) :
            (/\ ShotScene(k).bBarrelSocket
             /\ ShotScene(k).bPlayerController
             /\ AimRayMisses(ShotScene(k))
             /\ BarrelRayBlocked(ShotScene(k))) =>
                /\ out.hits[k].bBlockingHit
                /\ out.hits[k].Actor =
                       ShotScene(k).obstacles[FirstObstacle(ShotScene(k))]
                /\ out.hits[k].TraceStart = Point("Barrel", 0)

\* What the rifle does instead: on an aim miss WeaponTrace returns before
\* the barrel stage, and the shot reports the aim ray's miss, obstacle or not.
C31_AimMissEndsWeaponTrace ==
    (WeaponShot /\ ShotTraceTest) =>
        \A k \in 1..Len(out.hits) :
            (ShotScene(k).bPlayerController /\ AimRayMisses(ShotScene(k))) =>
                /\ ~out.hits[k].bBlockingHit
                /\ out.hits[k].Actor = NoActor
                /\ out.hits[k].TraceStart = Point("Aim", 0)
                /\ out.hits[k].TraceEnd = Point("Aim", ShotRange)

\* ------------------------------------------------------ leaving the cooldown
\* C32 (as claimed): in Burst mode, for every burst cooldown >= 0, a weapon
\* that entered the cooldown at the end of a burst eventually leaves it, and
\* is eventually Ready again.
C32_CooldownEventuallyCleared ==
    (Mode = EFM_Burst /\ bShouldBurstShotCooldown /\ ~hung) ~> (GateOpen \/ hung)

\* What holds instead: a positive cooldown is always left, within the
\* configured number of ticks ...
C32_PositiveCooldownCleared ==
    /\ (Mode = EFM_Burst /\ bShouldBurstShotCooldown /\ ~hung
        /\ WeaponData.BurstShotCooldown > 0) ~> (GateOpen \/ hung)
    /\ []((bShouldBurstShotCooldown /\ WeaponData.BurstShotCooldown > 0)
             => WeaponBurstCooldownTimer \in 1..WeaponData.BurstShotCooldown)

\* ... and a cooldown of 0 starts no timer and is never left: every request
\* after the first burst is dropped.
C32_ZeroCooldownLocksWeapon ==
    /\ []((bShouldBurstShotCooldown /\ WeaponData.BurstShotCooldown = 0)
             => WeaponBurstCooldownTimer = 0)
    /\ [][(bShouldBurstShotCooldown /\ WeaponData.BurstShotCooldown = 0)
             => (bShouldBurstShotCooldown' /\ shots' = shots)]_vars

\* ------------------------------------------------------ the burst counter
\* The burst counter after one more shot of a burst of the given size.
NextBurstCount(count, size) == IF count + 1 >= size THEN 0 ELSE count + 1

\* C33: the burst counter of the rifle, and that of the component, changes
\* only in a Burst-mode shot that went through the gate, and then to the next
\* count of the burst (0 after the shot that completes it, which also enters
\* the cooldown); every such shot advances it.  No timer expiry, dropped
\* request, drop, change of owner, re-arming call or tick changes it, so a
\* burst left open at count k is completed by the next burst size - k
\* accepted shots, however much later they come.
C33_BurstCountChangedOnlyByShots ==
    [][/\ IF out'.lastOp = "LaunchAttack" /\ out'.accepted /\ out'.returned
             /\ Mode = EFM_Burst
          THEN /\ CurrentBurstShotCount' =
                     NextBurstCount(CurrentBurstShotCount, BurstSize)
               /\ (CurrentBurstShotCount = BurstSize - 1)
                     <=> (bShouldBurstShotCooldown' /\ ~bShouldBurstShotCooldown)
          ELSE CurrentBurstShotCount' = CurrentBurstShotCount
       /\ IF out'.lastOp = "FireWeapon" /\ out'.accepted /\ out'.returned
             /\ Component.FiringMode = EFM_Burst
          THEN Component'.CurrentBurstShotCount =
                   NextBurstCount(Component.CurrentBurstShotCount,
                                  Component.MaxBurstShotCount)
          ELSE Component'.CurrentBurstShotCount =
                   Component.CurrentBurstShotCount]_vars

\* A burst of three left open after its first shot, on the rifle and on the
\* component: the rifle has since been dropped, every timer has expired and
\* more than MaxElapsed ticks have passed, and both counters still stand at 1.
C33_Witness ==
    /\ out.lastOp = "Tick"
    /\ Mode = EFM_Burst /\ BurstSize = 3
    /\ CurrentBurstShotCount = 1
    /\ Component.CurrentBurstShotCount = 1
    /\ BaseWeapon[Rifle].OwningCharacter = NoCharacter
    /\ sinceShot = MaxElapsed
    /\ bShouldFireWeapon /\ WeaponFireTimer = 0

\* ------------------------------------------------ ResetShouldFireSingleShot
\* C34: a call of ResetShouldFireSingleShot on a weapon in Burst or Automatic
\* mode leaves the ready flag, the cooldown flag and the burst counter as
\* they are; on a weapon in Single mode it leaves the ready flag true; and
\* in every mode it changes neither timer, nor the profile, nor anything
\* else.
C34_ResetSingleShotOnlySingleMode ==
    [][out'.lastOp = "ResetShouldFireSingleShot" =>
          /\ bShouldFireWeapon' =
                 (IF Mode = EFM_Single THEN TRUE ELSE bShouldFireWeapon)
          /\ bShouldBurstShotCooldown' = bShouldBurstShotCooldown
          /\ CurrentBurstShotCount' = CurrentBurstShotCount
          /\ UNCHANGED <<WeaponData, WeaponFireTimer, WeaponBurstCooldownTimer,
                         hung, shots, sinceShot, surroundings>>]_vars

\* The call was made on a Burst-mode rifle between the two shots of a burst,
\* with the fire-rate timer pending: the rifle is still not ready and
\* the counter still stands at 1.
C34_Witness ==
    /\ out.lastOp = "ResetShouldFireSingleShot"
    /\ Mode = EFM_Burst
    /\ ~bShouldFireWeapon /\ WeaponFireTimer > 0
    /\ CurrentBurstShotCount = 1

\* The call was made on a Single-mode rifle that had fired: the rifle is
\* ready again, within the tick of its shot.
C34_SingleRearmed ==
    /\ out.lastOp = "ResetShouldFireSingleShot"
    /\ Mode = EFM_Single
    /\ bShouldFireWeapon /\ shots > 0 /\ sinceShot = 0

\* The call was made on an Automatic rifle, or on a Burst-mode rifle in its
\* cooldown, that had fired: the rifle is not ready and, in Burst mode, still
\* in cooldown.
C34_OtherModesUntouched ==
    /\ out.lastOp = "ResetShouldFireSingleShot"
    /\ \/ Mode = EFM_Automatic /\ ~bShouldFireWeapon
       \/ Mode = EFM_Burst /\ ~bShouldFireWeapon /\ bShouldBurstShotCooldown

\* ------------------------------------------------------ the fallback of a drop
\* The drop that leads to the next state found the rifle configured without
\* physics simulation and no ground under it.
FallWithoutGround ==
    /\ out'.lastOp = "Fall"
    /\ ~BaseWeapon[Rifle].bShouldUsePhysicsSimulation
    /\ ~out'.ground

\* C35: every call of Fall returns; it calls itself at most once, and only
\* when physics simulation is configured off and the probe finds no ground;
\* that call takes the physics branch (the simulation is on, a settle timer
\* of SettleDuration is set, the weapon is not moved) and leaves the
\* configuration flag true; and the flag, once true, is true at every later
\* drop.
C35_FallReentersAtMostOnce ==
    /\ [][out'.lastOp = "Fall" =>
            /\ ~hung'
            /\ FallReentries(BaseWeapon[Rifle], out'.ground) <= 1
            /\ (FallReentries(BaseWeapon[Rifle], out'.ground) = 1)
                   <=> FallWithoutGround
            /\ FallWithoutGround =>
                   /\ BaseWeapon'[Rifle].bShouldUsePhysicsSimulation
                   /\ BaseWeapon'[Rifle].bSimulatePhysics
                   /\ BaseWeapon'[Rifle].SimulationTimers =
                          Append(BaseWeapon[Rifle].SimulationTimers,
                                 SettleDuration)
                   /\ BaseWeapon'[Rifle].ActorLocation =
                          BaseWeapon[Rifle].ActorLocation
                   /\ BaseWeapon'[Rifle].OwningCharacter = NoCharacter]_vars
    /\ [][\A w \in WeaponEntities :
             BaseWeapon[w].bShouldUsePhysicsSimulation
                 => BaseWeapon'[w].bShouldUsePhysicsSimulation]_vars

\* A rifle configured without physics simulation was dropped over ground and
\* snapped to it, was dropped again where there is none and fell back to
\* physics, and has now been dropped over ground once more: it simulates
\* physics, with the settle timers of both later drops pending.
C35_Witness ==
    /\ out.lastOp = "Fall" /\ out.ground
    /\ BaseWeapon[Rifle].ActorLocation = "GroundImpactPoint"
    /\ BaseWeapon[Rifle].bShouldUsePhysicsSimulation
    /\ BaseWeapon[Rifle].bSimulatePhysics
    /\ Len(BaseWeapon[Rifle].SimulationTimers) = 2

\* ------------------------------------------------- the settle time of a drop
\* C36 (as claimed): from a drop with physics simulation until the settle
\* timer of that drop expires, the weapon simulates physics; so while the
\* settle timer of the most recent drop is pending, the simulation is on.
C36_SimulatesUntilLastSettleTimer ==
    \A w \in WeaponEntities :
        BaseWeapon[w].SimulationTimers # <<>> => BaseWeapon[w].bSimulatePhysics

\* What the weapon does instead: the settle timer of an earlier drop that
\* expires while that of a later drop is pending switches the simulation
\* off, and nothing switches it on again before the next drop.
C36_EarlierTimerEndsSimulation ==
    [][\A w \in WeaponEntities :
          /\ (/\ out'.lastOp = "Tick"
              /\ Len(BaseWeapon[w].SimulationTimers) > 1
              /\ BaseWeapon[w].SimulationTimers[1] = 1
              /\ BaseWeapon[w].SimulationTimers[
                     Len(BaseWeapon[w].SimulationTimers)] > 1)
             => (/\ ~BaseWeapon'[w].bSimulatePhysics
                 /\ BaseWeapon'[w].SimulationTimers # <<>>)
          /\ (~BaseWeapon[w].bSimulatePhysics /\ BaseWeapon'[w].bSimulatePhysics)
             => (out'.lastOp = "Fall" /\ out'.target = w)]_vars

\* And what holds of a drop no earlier drop interferes with: with one settle
\* timer pending and the simulation on, it stays on until that timer expires.
C36_LoneDropSimulatesFullDuration ==
    [][\A w \in WeaponEntities :
          (/\ BaseWeapon[w].bSimulatePhysics
           /\ Len(BaseWeapon[w].SimulationTimers) = 1
           /\ BaseWeapon[w].SimulationTimers[1] > 1)
          => BaseWeapon'[w].bSimulatePhysics]_vars

\* ---------------------------------------------------------- the ignore list
\* The ignore list of the rifle.
IgnoreList == BaseWeapon[Rifle].ActorsToIgnore

\* The list only grows: every step leaves the entries it had, in place.
IgnoreListKept ==
    /\ Len(IgnoreList') >= Len(IgnoreList)
    /\ SubSeq(IgnoreList', 1, Len(IgnoreList)) = IgnoreList

\* C37 (as claimed): the ignore list only grows (an add of one null actor
\* leaves it unchanged, every other add appends, no operation removes an
\* entry), no trace of the rifle hits an actor of the list, and the list
\* never contains a null entry.
C37_IgnoreListGrowsWithoutNull ==
    /\ [][IgnoreListKept]_vars
    /\ [][out'.lastOp \notin {"AddActorToIgnore", "AddActorToIgnoreArray"}
             => IgnoreList' = IgnoreList]_vars
    /\ [](WeaponShot => \A k \in 1..Len(out.hits) :
             out.hits[k].bBlockingHit =>
                 out.hits[k].Actor \notin Range(IgnoreList))
    /\ [](NoActor \notin Range(IgnoreList))

\* What holds: the list only grows, only the two adds change it, the add of
\* one actor appends that actor unless it is null, and no shot hits an actor
\* of the list ...
C37_IgnoreListOnlyGrows ==
    /\ [][IgnoreListKept]_vars
    /\ [][out'.lastOp \notin {"AddActorToIgnore", "AddActorToIgnoreArray"}
             => IgnoreList' = IgnoreList]_vars
    /\ [][out'.lastOp = "AddActorToIgnore" =>
             \/ IgnoreList' = IgnoreList
             \/ \E Actor \in Actors : IgnoreList' = Append(IgnoreList, Actor)]_vars
    /\ [](WeaponShot => \A k \in 1..Len(out.hits) :
             out.hits[k].bBlockingHit =>
                 out.hits[k].Actor \notin Range(IgnoreList))

\* ... and a null entry enters the list only through the add of an array.
C37_NullEntersByArrayOnly ==
    [][(NoActor \notin Range(IgnoreList) /\ NoActor \in Range(IgnoreList'))
          => out'.lastOp = "AddActorToIgnoreArray"]_vars

=============================================================================
